---- MODULE Spec2Model ----
(***************************************************************************)
(* A model of InventoryOCR (src/inventory_ocr.py): the holdings-table      *)
(* extraction extract_stock_info, the text-detection wrapper               *)
(* process_image, the colour-sign classifier and the usage counter; and of *)
(* MarketMonitor (src/monitor.py): the price check check_once with the     *)
(* /stop and /start commands of Notifier (src/notifier.py), and the        *)
(* scheduled reports of run_monitor_loop.                                  *)
(*                                                                         *)
(* Representation.                                                         *)
(*  - A Python str is a sequence of characters; a character is a string of *)
(*    length one for ASCII and "U+XXXX" (its code point) for an ideograph. *)
(*  - A Python float is the integer  value * Scale  (a decimal fixed point *)
(*    with FracDigits fractional digits); the numerals of the text pools   *)
(*    have at most FracDigits fractional digits, so the value is exact.    *)
(*  - Coordinates are integers (pixel units).                              *)
(***************************************************************************)
EXTENDS Integers, Sequences, FiniteSets, TLC

VARIABLES
    pc,          \* position of the caller/extract_stock_info: idle, cluster, anchors, rows, done
    client,      \* self.client is not None
    cv_ok,       \* cv2.imread(image_path) returns an image (FALSE: None)
    image,       \* the paragraphs the text detection finds in the image file
    usage_file,  \* content of vision_usage.json: [month, count]
    month,       \* datetime.now() month key
    calls_left,  \* how many more times the caller calls extract_stock_info
    items,       \* local items of extract_stock_info
    rows,        \* local rows
    anchors,     \* local anchors
    ri,          \* index of the row the loop of line 208 is at
    results,     \* local results
    src_rows,    \* history: for each element of results, the index of its row
    out,         \* value returned by the last completed call
    prev         \* history: <<items, out>> of the completed call before the last

ocr_vars == <<pc, client, cv_ok, image, usage_file, month, calls_left, items, rows,
              anchors, ri, results, src_rows, out, prev>>

\* MarketMonitor.check_once (src/monitor.py) and the /stop and /start commands
\* of Notifier (src/notifier.py)
VARIABLES
    stopped_symbols,  \* Notifier.stopped_symbols
    watch,            \* what notion.get_monitoring_list() returns
    allow_outside,    \* MarketMonitor.allow_outside
    chk,              \* index of the item check_once is at (0: check_once is not running)
    success_count,    \* local success_count of check_once
    fail_count,       \* local fail_count of check_once
    notion,           \* per item, the price and status last written to Notion
    events,           \* the alerts sent and the pause/reset lines printed, in order
    checks_left,      \* how many more times check_once is called outside the loop
    cmds_left         \* how many more /stop and /start commands arrive

alert_vars == <<stopped_symbols, watch, allow_outside, chk, success_count, fail_count,
                notion, events, checks_left, cmds_left>>

\* MarketMonitor.run_monitor_loop
VARIABLES
    loop_pc,                 \* off, top, check, checking, sleep
    now_day,                 \* the date of _get_now_taipei(), a day number
    now_slot,                \* the time of day, a slot number
    last_open_date,          \* None or Some(day)
    last_noon_date,
    last_daily_report_date,
    last_check_time,         \* time of the last automatic check, in slots
    sent,                    \* the reports sent: <<kind, day, slot>>
    attempts                 \* history: the report blocks entered: <<kind, day, slot>>

loop_vars == <<loop_pc, now_day, now_slot, last_open_date, last_noon_date,
               last_daily_report_date, last_check_time, sent, attempts>>

monitor_vars == <<alert_vars, loop_vars>>

vars == <<ocr_vars, monitor_vars>>

---------------------------------------------------------------------------
(* Bounds of the model *)

\* fractional decimal digits kept by the fixed-point representation of floats
FracDigits == 1
\* number of calls of extract_stock_info on the image in the specification Spec
MaxCalls == 2
\* the month key takes the values 0..MaxMonth
MaxMonth == 1
\* most paragraphs in an image of the specifications Spec and SpecSymbol
MaxParas == 2
\* most paragraphs in an image of the specification SpecCluster
MaxItems == 4
\* most numeric paragraphs right of the code in the specifications SpecRow and
\* SpecValues
MaxNums == 3
\* most numeric paragraphs right of the code in the specification SpecColor
MaxColored == 2
\* most header paragraphs in an image of the specification SpecHeader
MaxHeads == 2

(* Program constants *)

\* line 179: abs(items[i]['y'] - avg_y) < 25
RowTol == 25
\* line 195: rows[:8]
HeaderRows == 8
\* line 222: it['x'] < s_item['x'] + 10
NameTol == 10
\* line 236: it['x'] > s_item['x'] + 5
ValTol == 5
\* lines 156, 157: r_pixels > 5, g_pixels > 5
MinPixels == 5

---------------------------------------------------------------------------
(* Characters and strings *)

Digits == {"0", "1", "2", "3", "4", "5", "6", "7", "8", "9"}

Letters == {"A", "B", "a", "b"}

\* the CJK ideographs that occur in the header keywords, the transaction-type
\* words, the placeholder name and the names of the text pools
Ideographs ==
    {"U+53F0", "U+7A4D", "U+96FB", "U+73FE", "U+80A1", "U+878D", "U+8CC7",
     "U+5238", "U+4EE3", "U+92B7", "U+78BC", "U+540D", "U+7A31", "U+6A19",
     "U+7684", "U+5373", "U+6642", "U+5EAB", "U+5B58", "U+6578", "U+91CF",
     "U+640D", "U+76CA", "U+8A66", "U+7B97", "U+539F", "U+5E63", "U+4ED8",
     "U+51FA", "U+6210", "U+672C", "U+5747", "U+50F9", "U+672A", "U+77E5"}

\* \d of the re module
IsDigit(c) == c \in Digits

\* \w of the re module on str patterns: letters of any script, digits, underscore
IsWordChar(c) == c \in Digits \cup Letters \cup Ideographs \cup {"_"}

\* str.isspace
IsSpace(c) == c = " "

DigitVal(c) ==
    CASE c = "0" -> 0 [] c = "1" -> 1 [] c = "2" -> 2 [] c = "3" -> 3
      [] c = "4" -> 4 [] c = "5" -> 5 [] c = "6" -> 6 [] c = "7" -> 7
      [] c = "8" -> 8 [] c = "9" -> 9

\* str.upper, one character
UpperChar(c) == CASE c = "a" -> "A" [] c = "b" -> "B" [] OTHER -> c

\* str.upper
RECURSIVE Upper(_)
Upper(s) == IF s = <<>> THEN <<>> ELSE <<UpperChar(Head(s))>> \o Upper(Tail(s))

Abs(n) == IF n < 0 THEN -n ELSE n

RECURSIVE Pow10(_)
Pow10(n) == IF n = 0 THEN 1 ELSE 10 * Pow10(n - 1)

Scale == Pow10(FracDigits)

\* s[i..] starts with p
StartsAt(s, i, p) ==
    /\ i + Len(p) - 1 <= Len(s)
    /\ \A k \in 1..Len(p) : s[i + k - 1] = p[k]

\* p in s
Contains(s, p) == \E i \in 1..(Len(s) - Len(p) + 1) : StartsAt(s, i, p)

\* any(k in txt for k in keys)
ContainsAny(s, keys) == \E k \in keys : Contains(s, k)

\* s.replace(p, ''), p not empty: left to right, non-overlapping
RECURSIVE RemoveAllFrom(_, _, _)
RemoveAllFrom(s, i, p) ==
    IF i > Len(s) THEN <<>>
    ELSE IF StartsAt(s, i, p) THEN RemoveAllFrom(s, i + Len(p), p)
    ELSE <<s[i]>> \o RemoveAllFrom(s, i + 1, p)

RemoveAll(s, p) == RemoveAllFrom(s, 1, p)

\* s.strip(chars) for the character set cs
RECURSIVE LStrip(_, _)
LStrip(s, cs) ==
    IF s # <<>> /\ Head(s) \in cs THEN LStrip(Tail(s), cs) ELSE s

RECURSIVE RStrip(_, _)
RStrip(s, cs) ==
    IF s # <<>> /\ s[Len(s)] \in cs THEN RStrip(SubSeq(s, 1, Len(s) - 1), cs) ELSE s

StripChars(s, cs) == RStrip(LStrip(s, cs), cs)

\* s.strip()
Strip(s) == StripChars(s, {" "})

\* "".join(parts)
RECURSIVE Concat(_)
Concat(parts) == IF parts = <<>> THEN <<>> ELSE Head(parts) \o Concat(Tail(parts))

\* " ".join(parts)
RECURSIVE JoinSpace(_)
JoinSpace(parts) ==
    IF parts = <<>> THEN <<>>
    ELSE IF Len(parts) = 1 THEN parts[1]
    ELSE parts[1] \o <<" ">> \o JoinSpace(Tail(parts))

\* number of leading characters of s[i..] that are digits
RECURSIVE DigitRun(_, _)
DigitRun(s, i) ==
    IF i <= Len(s) /\ IsDigit(s[i]) THEN 1 + DigitRun(s, i + 1) ELSE 0

---------------------------------------------------------------------------
(* The regular expressions of extract_stock_info *)

\* \b before position i of s (i in 1..Len(s)+1)
WordBoundary(s, i) ==
    (i > 1 /\ IsWordChar(s[i - 1])) # (i <= Len(s) /\ IsWordChar(s[i]))

\* the pattern \b\d{4,6}\b instead
MatchSymbolAt_Range(s, i) ==
    IF /\ WordBoundary(s, i)
       /\ DigitRun(s, i) \in 4..6
       /\ WordBoundary(s, i + DigitRun(s, i)) THEN DigitRun(s, i)
    ELSE 0

\* length of the match of \b(\d{4}|\d{6})\b at position i of s, 0 if none:
\* the alternatives are tried in order
MatchSymbolAt(s, i) ==
    IF WordBoundary(s, i) /\ DigitRun(s, i) >= 4 /\ WordBoundary(s, i + 4) THEN 4
    ELSE IF WordBoundary(s, i) /\ DigitRun(s, i) >= 6 /\ WordBoundary(s, i + 6) THEN 6
    ELSE 0

\* symbol_pattern.findall(s) from position i on: the non-overlapping matches,
\* left to right
RECURSIVE FindSymbolsFrom(_, _)
FindSymbolsFrom(s, i) ==
    IF i > Len(s) THEN <<>>
    ELSE LET m == MatchSymbolAt(s, i)
         IN  IF m > 0 THEN <<SubSeq(s, i, i + m - 1)>> \o FindSymbolsFrom(s, i + m)
             ELSE FindSymbolsFrom(s, i + 1)

FindSymbols(s) == FindSymbolsFrom(s, 1)

\* length of the match of -?\d+\.?\d* at position i of s, 0 if none
MatchNumAt(s, i) ==
    LET neg == i <= Len(s) /\ s[i] = "-"
        j   == IF neg THEN i + 1 ELSE i
        d   == DigitRun(s, j)
        k   == j + d
        dot == k <= Len(s) /\ s[k] = "."
        k2  == IF dot THEN k + 1 ELSE k
    IN  IF d = 0 THEN 0 ELSE k2 + DigitRun(s, k2) - i

\* re.findall(r'-?\d+\.?\d*', s) from position i on
RECURSIVE FindNumsFrom(_, _)
FindNumsFrom(s, i) ==
    IF i > Len(s) THEN <<>>
    ELSE LET m == MatchNumAt(s, i)
         IN  IF m > 0 THEN <<SubSeq(s, i, i + m - 1)>> \o FindNumsFrom(s, i + m)
             ELSE FindNumsFrom(s, i + 1)

FindNums(s) == FindNumsFrom(s, 1)

\* the transaction-type words of line 225 (xian-gu, rong-zi, rong-quan, dai-xiao)
XianGu == <<"U+73FE", "U+80A1">>
RongZi == <<"U+878D", "U+8CC7">>
RongQuan == <<"U+878D", "U+5238">>
DaiXiao == <<"U+4EE3", "U+92B7">>

\* length of the match of (xian-gu|xian\s?gu|rong-zi|rong-quan|dai-xiao) at i, 0 if none
MatchTradeAt(s, i) ==
    IF StartsAt(s, i, XianGu) THEN 2
    ELSE IF /\ i + 2 <= Len(s)
            /\ s[i] = XianGu[1] /\ IsSpace(s[i + 1]) /\ s[i + 2] = XianGu[2] THEN 3
    ELSE IF StartsAt(s, i, RongZi) \/ StartsAt(s, i, RongQuan)
            \/ StartsAt(s, i, DaiXiao) THEN 2
    ELSE 0

\* re.sub(r'(...)', '', s) of line 225 from position i on
RECURSIVE RemoveTradeFrom(_, _)
RemoveTradeFrom(s, i) ==
    IF i > Len(s) THEN <<>>
    ELSE LET m == MatchTradeAt(s, i)
         IN  IF m > 0 THEN RemoveTradeFrom(s, i + m)
             ELSE <<s[i]>> \o RemoveTradeFrom(s, i + 1)

RemoveTrade(s) == RemoveTradeFrom(s, 1)

\* the characters of txt.strip('|[]...() ') of line 227; U+3010 and U+3011 are
\* the lenticular brackets
NamePunct == {"|", "[", "]", "U+3010", "U+3011", "(", ")", " "}

---------------------------------------------------------------------------
(* Numbers *)

\* value of a string of digits
RECURSIVE IntOf(_)
IntOf(ds) ==
    IF ds = <<>> THEN 0 ELSE 10 * IntOf(SubSeq(ds, 1, Len(ds) - 1)) + DigitVal(ds[Len(ds)])

\* the first FracDigits digits of the fraction ds, as an integer (ds padded with zeros)
RECURSIVE FracFrom(_, _)
FracFrom(ds, k) ==
    IF k > FracDigits THEN 0
    ELSE (IF k <= Len(ds) THEN DigitVal(ds[k]) ELSE 0) * Pow10(FracDigits - k)
         + FracFrom(ds, k + 1)

FracOf(ds) == FracFrom(ds, 1)

\* float(n) for a match n of -?\d+\.?\d*, as value * Scale
ParseFloat(n) ==
    LET neg  == n[1] = "-"
        body == IF neg THEN Tail(n) ELSE n
        d    == DigitRun(body, 1)
        frac == IF d + 1 < Len(body) THEN SubSeq(body, d + 2, Len(body)) ELSE <<>>
        mag  == IntOf(SubSeq(body, 1, d)) * Scale + FracOf(frac)
    IN  IF neg THEN -mag ELSE mag

\* int(v) for a float v: truncation toward zero
TruncInt(v) == IF v < 0 THEN -((-v) \div Scale) ELSE v \div Scale

\* v == int(v)
IsIntegral(v) == v % Scale = 0

\* number of decimal digits of the natural number n
RECURSIVE NumDigits(_)
NumDigits(n) == IF n < 10 THEN 1 ELSE 1 + NumDigits(n \div 10)

\* n > 0 has one significant digit
RECURSIVE OneSigDigit(_)
OneSigDigit(n) == IF n < 10 THEN TRUE ELSE n % 10 = 0 /\ OneSigDigit(n \div 10)

\* '.' in str(v): repr of a finite float has a '.' unless it is printed in
\* exponent form (abs(v) >= 1e16 or 0 < abs(v) < 1e-4) with a one-digit mantissa
StrHasDot(v) ==
    \/ v = 0
    \/ /\ NumDigits(Abs(v) \div Scale) <= 16
       /\ Abs(v) >= Scale \/ (Abs(v) % Scale) * Pow10(4) >= Scale
    \/ ~OneSigDigit(Abs(v))

---------------------------------------------------------------------------
(* process_image, _get_usage, _increment_usage, _get_color_sign *)

\* no file (os.path.exists is false), or a file that json cannot load: like a
\* file of another month, _get_usage returns 0
NoFile == [month |-> -1, count |-> 0]

\* an optional value is a sequence of length 0 (None) or 1
None == <<>>
Some(v) == <<v>>

\* _get_usage: the count of the file if the file is of this month, else 0
GetUsage(file, m) == IF file.month = m THEN file.count ELSE 0

\* the count of the file is not read: every call writes 1
IncrementUsage_Reset(file, m) == [month |-> m, count |-> 1]

\* _increment_usage: the file after the call
IncrementUsage(file, m) == [month |-> m, count |-> GetUsage(file, m) + 1]

\* lines 96-122 of process_image: one item per paragraph whose text is not
\* blank, the text stripped; x and y are the centre of the bounding box, r and g
\* stand for the vertices: the red and green pixel counts of the image region
\* they bound (what _get_color_sign reads through them)
RECURSIVE ExtractItems(_)
ExtractItems(paras) ==
    IF paras = <<>> THEN <<>>
    ELSE LET p == Head(paras)
         IN  IF Strip(p.text) # <<>>
             THEN <<[p EXCEPT !.text = Strip(p.text)]>> \o ExtractItems(Tail(paras))
             ELSE ExtractItems(Tail(paras))

\* the pixel counts read without the check of line 131 for a missing image
ColorSign_NoImageCheck(img, r, g) ==
    IF r > g /\ r > MinPixels THEN 1
    ELSE IF g > r /\ g > MinPixels THEN -1
    ELSE 0

\* the thresholds taken as r >= 5 and g >= 5
ColorSign_AtLeast(img, r, g) ==
    IF ~img THEN 0
    ELSE IF r > g /\ r >= MinPixels THEN 1
    ELSE IF g > r /\ g >= MinPixels THEN -1
    ELSE 0

\* _get_color_sign(cv_img, vertices), r and g the pixel counts of the masks
ColorSign(img, r, g) ==
    IF ~img THEN 0
    ELSE IF r > g /\ r > MinPixels THEN 1
    ELSE IF g > r /\ g > MinPixels THEN -1
    ELSE 0

---------------------------------------------------------------------------
(* Step 1 of extract_stock_info: rows *)

\* descending sort (reverse=True)
RECURSIVE InsertByY_Desc(_, _)
InsertByY_Desc(sorted, it) ==
    IF sorted = <<>> THEN <<it>>
    ELSE IF Head(sorted).y >= it.y THEN <<Head(sorted)>> \o InsertByY_Desc(Tail(sorted), it)
    ELSE <<it>> \o sorted

\* list.sort / sorted are stable: an element goes after those with a key <= its own
RECURSIVE InsertByY(_, _)
InsertByY(sorted, it) ==
    IF sorted = <<>> THEN <<it>>
    ELSE IF Head(sorted).y <= it.y THEN <<Head(sorted)>> \o InsertByY(Tail(sorted), it)
    ELSE <<it>> \o sorted

\* no sort: the items stay in the order of the response
SortByY_None(its) == its

RECURSIVE SortByYFrom(_, _, _)
SortByYFrom(its, i, acc) ==
    IF i > Len(its) THEN acc ELSE SortByYFrom(its, i + 1, InsertByY(acc, its[i]))

\* items.sort(key=lambda i: i['y'])
SortByY(its) == SortByYFrom(its, 1, <<>>)

RECURSIVE InsertByX(_, _)
InsertByX(sorted, it) ==
    IF sorted = <<>> THEN <<it>>
    ELSE IF Head(sorted).x <= it.x THEN <<Head(sorted)>> \o InsertByX(Tail(sorted), it)
    ELSE <<it>> \o sorted

\* the rows keep the order of the clustering
SortByX_None(its) == its

RECURSIVE SortByXFrom(_, _, _)
SortByXFrom(its, i, acc) ==
    IF i > Len(its) THEN acc ELSE SortByXFrom(its, i + 1, InsertByX(acc, its[i]))

\* sorted(current_row, key=lambda r: r['x'])
SortByX(its) == SortByXFrom(its, 1, <<>>)

RECURSIVE SumY(_)
SumY(its) == IF its = <<>> THEN 0 ELSE Head(its).y + SumY(Tail(its))

\* avg_y - y < 25 instead of abs(y - avg_y) < 25
JoinsRow_NoAbs(it, current_row) ==
    SumY(current_row) - it.y * Len(current_row) < RowTol * Len(current_row)

\* the distance is taken to the last member of the row instead of the mean
JoinsRow_Last(it, current_row) ==
    Abs(it.y - current_row[Len(current_row)].y) < RowTol

\* lines 178-179: abs(y - sum(ys)/len(ys)) < 25, multiplied through by len(ys)
JoinsRow(it, current_row) ==
    Abs(it.y * Len(current_row) - SumY(current_row)) < RowTol * Len(current_row)

\* the loop of lines 176-183 from index i on, and line 184
RECURSIVE ClusterFrom(_, _, _, _)
ClusterFrom(its, i, current_row, rws) ==
    IF i > Len(its) THEN Append(rws, SortByX(current_row))
    ELSE IF JoinsRow(its[i], current_row)
         THEN ClusterFrom(its, i + 1, Append(current_row, its[i]), rws)
         ELSE ClusterFrom(its, i + 1, <<its[i]>>, Append(rws, SortByX(current_row)))

\* lines 173-184, its sorted and not empty
ClusterRows(its) == ClusterFrom(its, 2, <<its[1]>>, <<>>)

---------------------------------------------------------------------------
(* Step 2: anchors *)

SymbolKeys == {<<"U+4EE3", "U+78BC">>, <<"U+540D", "U+7A31">>, <<"U+6A19", "U+7684">>}

QuantityKeys ==
    {<<"U+5373", "U+6642", "U+5EAB", "U+5B58">>, <<"U+5EAB", "U+5B58">>,
     <<"U+80A1", "U+6578">>, <<"U+91CF">>}

ProfitKeys ==
    {<<"U+640D", "U+76CA">>, <<"U+8A66", "U+7B97">>,
     <<"U+539F", "U+5E63", "U+640D", "U+76CA">>}

PriceKeys ==
    {<<"U+4ED8", "U+51FA", "U+6210", "U+672C">>,
     <<"U+6210", "U+672C", "U+5747", "U+50F9">>,
     <<"U+6210", "U+672C">>, <<"U+5747", "U+50F9">>}

NoAnchors == [symbol |-> None, quantity |-> None, profit |-> None, price |-> None]

\* lines 197-201 for one item
UpdateAnchors(a, it) ==
    [symbol   |-> IF ContainsAny(it.text, SymbolKeys) THEN Some(it.x) ELSE a.symbol,
     quantity |-> IF ContainsAny(it.text, QuantityKeys) THEN Some(it.x) ELSE a.quantity,
     profit   |-> IF ContainsAny(it.text, ProfitKeys) THEN Some(it.x) ELSE a.profit,
     price    |-> IF ContainsAny(it.text, PriceKeys) THEN Some(it.x) ELSE a.price]

RECURSIVE ScanRow(_, _, _)
ScanRow(row, k, a) ==
    IF k > Len(row) THEN a ELSE ScanRow(row, k + 1, UpdateAnchors(a, row[k]))

\* every row is scanned for header keywords
RECURSIVE ScanRows_All(_, _, _)
ScanRows_All(rws, i, a) ==
    IF i > Len(rws) THEN a
    ELSE ScanRows_All(rws, i + 1, ScanRow(rws[i], 1, a))

RECURSIVE ScanRows(_, _, _)
ScanRows(rws, i, a) ==
    IF i > Len(rws) \/ i > HeaderRows THEN a
    ELSE ScanRows(rws, i + 1, ScanRow(rws[i], 1, a))

\* lines 187-201
DetectAnchors(rws) == ScanRows(rws, 1, NoAnchors)

---------------------------------------------------------------------------
(* Step 3: one row *)

\* [it['text'] for it in row]
RECURSIVE RowTexts(_)
RowTexts(row) == IF row = <<>> THEN <<>> ELSE <<Head(row).text>> \o RowTexts(Tail(row))

\* line 209
RowStr(row) == Upper(JoinSpace(RowTexts(row)))

\* line 210
RowSymbols(row) == FindSymbols(RowStr(row))

\* line 214
PickSymbol(symbols) == symbols[1]

\* it['text'] == symbol instead of symbol in it['text']
SymbolItem_Exact(row, symbol) ==
    IF \E k \in 1..Len(row) : row[k].text = symbol
    THEN CHOOSE k \in 1..Len(row) :
            /\ row[k].text = symbol
            /\ \A j \in 1..(k - 1) : row[j].text # symbol
    ELSE 0

\* line 215: index of the first item of the row whose text contains the symbol,
\* 0 if there is none
SymbolItem(row, symbol) ==
    IF \E k \in 1..Len(row) : Contains(row[k].text, symbol)
    THEN CHOOSE k \in 1..Len(row) :
            /\ Contains(row[k].text, symbol)
            /\ \A j \in 1..(k - 1) : ~Contains(row[j].text, symbol)
    ELSE 0

\* lines 223-227
NamePart(text, symbol) ==
    StripChars(RemoveTrade(Strip(RemoveAll(text, symbol))), NamePunct)

\* lines 220-228 from item k on
RECURSIVE NamePartsFrom(_, _, _, _)
NamePartsFrom(row, k, sx, symbol) ==
    IF k > Len(row) THEN <<>>
    ELSE LET txt  == NamePart(row[k].text, symbol)
             rest == NamePartsFrom(row, k + 1, sx, symbol)
         IN  IF row[k].x < sx + NameTol /\ txt # <<>> THEN <<txt>> \o rest ELSE rest

\* line 230
RowName(row, sx, symbol) == Strip(Concat(NamePartsFrom(row, 1, sx, symbol)))

\* the placeholder of line 294 (wei-zhi-biao-di)
UnknownName == <<"U+672A", "U+77E5", "U+6A19", "U+7684">>

\* line 242: the numeral n is taken for the code itself
IsSymbolAgain(n, symbol) ==
    ParseFloat(n) = IntOf(symbol) * Scale /\ Len(n) = Len(symbol)

\* lines 238-248 for the numerals ns of one item
RECURSIVE CandidatesOf(_, _, _)
CandidatesOf(ns, it, symbol) ==
    IF ns = <<>> THEN <<>>
    ELSE LET n    == Head(ns)
             rest == CandidatesOf(Tail(ns), it, symbol)
         IN  IF IsSymbolAgain(n, symbol) THEN rest
             ELSE <<[val |-> ParseFloat(n), x |-> it.x, r |-> it.r, g |-> it.g]>> \o rest

\* line 236
RightOfSymbol(it, sx) == it.x > sx + ValTol

\* lines 234-248 from item k on
RECURSIVE ValCandidatesFrom(_, _, _, _)
ValCandidatesFrom(row, k, sx, symbol) ==
    IF k > Len(row) THEN <<>>
    ELSE LET rest == ValCandidatesFrom(row, k + 1, sx, symbol)
         IN  IF RightOfSymbol(row[k], sx)
             THEN CandidatesOf(FindNums(RemoveAll(row[k].text, <<",">>)), row[k], symbol)
                  \o rest
             ELSE rest

ValCandidates(row, sx, symbol) == ValCandidatesFrom(row, 1, sx, symbol)

\* max instead of min: the first of the farthest
Nearest_Farthest(cands, a) ==
    CHOOSE k \in 1..Len(cands) :
        /\ \A j \in 1..Len(cands) : Abs(cands[k].x - a) >= Abs(cands[j].x - a)
        /\ \A j \in 1..(k - 1) : Abs(cands[j].x - a) < Abs(cands[k].x - a)

\* min(val_candidates, key=lambda c: abs(c['x'] - a)): the first of the nearest
Nearest(cands, a) ==
    CHOOSE k \in 1..Len(cands) :
        /\ \A j \in 1..Len(cands) : Abs(cands[k].x - a) <= Abs(cands[j].x - a)
        /\ \A j \in 1..(k - 1) : Abs(cands[j].x - a) > Abs(cands[k].x - a)

\* lines 257-262
PickQuantity(cands, a) ==
    IF a.quantity # None THEN TruncInt(cands[Nearest(cands, a.quantity[1])].val)
    ELSE TruncInt(cands[1].val)

\* the loop without reversed(): the first candidate with an integer value
LastIntegral_First(cands) ==
    IF \E k \in 1..Len(cands) : IsIntegral(cands[k].val)
    THEN CHOOSE k \in 1..Len(cands) :
            /\ IsIntegral(cands[k].val)
            /\ \A j \in 1..(k - 1) : ~IsIntegral(cands[j].val)
    ELSE 0

\* lines 274-279: the last candidate with an integer value
LastIntegral(cands) ==
    IF \E k \in 1..Len(cands) : IsIntegral(cands[k].val)
    THEN CHOOSE k \in 1..Len(cands) :
            /\ IsIntegral(cands[k].val)
            /\ \A j \in (k + 1)..Len(cands) : ~IsIntegral(cands[j].val)
    ELSE 0

\* the fallback takes the first candidate, as the quantity's does
PickProfit_FirstCandidate(cands, a, img) ==
    IF a.profit # None
    THEN LET m    == cands[Nearest(cands, a.profit[1])]
             p    == TruncInt(m.val)
             sign == ColorSign(img, m.r, m.g)
         IN  IF sign = -1 THEN -Abs(p) ELSE IF sign = 1 THEN Abs(p) ELSE p
    ELSE LET p    == TruncInt(cands[1].val)
             sign == ColorSign(img, cands[1].r, cands[1].g)
         IN  IF sign = -1 THEN -Abs(p) ELSE p

\* lines 265-279
PickProfit(cands, a, img) ==
    IF a.profit # None
    THEN LET m    == cands[Nearest(cands, a.profit[1])]
             p    == TruncInt(m.val)
             sign == ColorSign(img, m.r, m.g)
         IN  IF sign = -1 THEN -Abs(p) ELSE IF sign = 1 THEN Abs(p) ELSE p
    ELSE LET k == LastIntegral(cands)
         IN  IF k = 0 THEN 0
             ELSE LET p    == TruncInt(cands[k].val)
                      sign == ColorSign(img, cands[k].r, cands[k].g)
                  IN  IF sign = -1 THEN -Abs(p) ELSE p

\* only the quantity is excluded
PriceEligible_QuantityOnly(c, quantity, profit) ==
    Abs(c.val - quantity * Scale) * 100 > Scale

\* line 288: abs(c['val'] - quantity) > 0.01 and abs(c['val'] - profit) > 0.01
PriceEligible(c, quantity, profit) ==
    /\ Abs(c.val - quantity * Scale) * 100 > Scale
    /\ Abs(c.val - profit * Scale) * 100 > Scale

\* lines 287-290 from candidate k on, avg the value of avg_price so far
RECURSIVE PriceLoop(_, _, _, _, _)
PriceLoop(cands, k, quantity, profit, avg) ==
    IF k > Len(cands) THEN avg
    ELSE IF PriceEligible(cands[k], quantity, profit)
         THEN IF StrHasDot(cands[k].val) THEN cands[k].val
              ELSE PriceLoop(cands, k + 1, quantity, profit, cands[k].val)
         ELSE PriceLoop(cands, k + 1, quantity, profit, avg)

\* lines 282-290
PickPrice(cands, a, quantity, profit) ==
    IF a.price # None THEN cands[Nearest(cands, a.price[1])].val
    ELSE PriceLoop(cands, 1, quantity, profit, 0)

\* quantity emitted without abs()
EmitQuantity_Raw(quantity) == quantity

\* line 295
EmitQuantity(quantity) == Abs(quantity)

\* lines 250-298: the record of a row with symbol item at x = sx
MakeRecord(row, sx, symbol, a, img) ==
    LET cands    == ValCandidates(row, sx, symbol)
        name     == RowName(row, sx, symbol)
        quantity == IF cands # <<>> THEN PickQuantity(cands, a) ELSE 0
        profit   == IF cands # <<>> THEN PickProfit(cands, a, img) ELSE 0
        price    == IF cands # <<>> THEN PickPrice(cands, a, quantity, profit) ELSE 0
    IN  [symbol    |-> symbol,
         name      |-> IF name # <<>> THEN name ELSE UnknownName,
         quantity  |-> EmitQuantity(quantity),
         avg_price |-> price,
         profit    |-> profit]

---------------------------------------------------------------------------
(* The calls of extract_stock_info *)

\* the early return leaves the caller with the records of the call before
ReturnEmpty_KeepOut ==
    /\ pc' = "done"
    /\ items' = <<>>
    /\ rows' = <<>>
    /\ anchors' = NoAnchors
    /\ ri' = 0
    /\ results' = <<>>
    /\ src_rows' = <<>>
    /\ UNCHANGED out

\* line 165 with process_image returning [] and line 167: return []
ReturnEmpty ==
    /\ pc' = "done"
    /\ items' = <<>>
    /\ rows' = <<>>
    /\ anchors' = NoAnchors
    /\ ri' = 0
    /\ results' = <<>>
    /\ src_rows' = <<>>
    /\ out' = <<>>

\* a call starts: the caller keeps what the call before it returned
StartCall ==
    /\ pc \in {"idle", "done"}
    /\ calls_left > 0
    /\ calls_left' = calls_left - 1
    /\ prev' = IF pc = "done" THEN Some([items |-> items, out |-> out]) ELSE None
    /\ UNCHANGED <<client, cv_ok, image, month>>
    /\ UNCHANGED monitor_vars

\* lines 79-80: no client
CallNoClient ==
    /\ StartCall
    /\ ~client
    /\ ReturnEmpty
    /\ UNCHANGED usage_file

\* lines 83-87 raise (the file cannot be read, the request fails), lines 123-125
CallRaises ==
    /\ StartCall
    /\ client
    /\ ReturnEmpty
    /\ UNCHANGED usage_file

\* lines 91-94: the response carries an error or no text annotation
CallError ==
    /\ StartCall
    /\ client
    /\ usage_file' = IncrementUsage(usage_file, month)
    /\ ReturnEmpty

\* lines 91-122 and 165-169: the response carries the paragraphs of the image
CallOk ==
    /\ StartCall
    /\ client
    /\ usage_file' = IncrementUsage(usage_file, month)
    /\ LET its == ExtractItems(image)
       IN  IF its = <<>> THEN ReturnEmpty
           ELSE /\ pc' = "cluster"
                /\ items' = its
                /\ rows' = <<>>
                /\ anchors' = NoAnchors
                /\ ri' = 0
                /\ results' = <<>>
                /\ src_rows' = <<>>
                /\ UNCHANGED out

\* lines 172-184
Cluster ==
    /\ pc = "cluster"
    /\ items' = SortByY(items)
    /\ rows' = ClusterRows(items')
    /\ pc' = "anchors"
    /\ UNCHANGED <<client, cv_ok, image, usage_file, month, calls_left, anchors,
                   ri, results, src_rows, out, prev>>
    /\ UNCHANGED monitor_vars

\* lines 187-206
Anchors ==
    /\ pc = "anchors"
    /\ anchors' = DetectAnchors(rows)
    /\ results' = <<>>
    /\ ri' = 1
    /\ pc' = "rows"
    /\ UNCHANGED <<client, cv_ok, image, usage_file, month, calls_left, items,
                   rows, src_rows, out, prev>>
    /\ UNCHANGED monitor_vars

\* a row without a numeric candidate is dropped like a row without a symbol
HasSymbol_AndValues(row) ==
    /\ RowSymbols(row) # <<>>
    /\ SymbolItem(row, PickSymbol(RowSymbols(row))) # 0
    /\ LET symbol == PickSymbol(RowSymbols(row))
       IN  ValCandidates(row, row[SymbolItem(row, symbol)].x, symbol) # <<>>

\* a row counts only if one of its items is the code and nothing else
HasSymbol_Whole(row) ==
    /\ RowSymbols(row) # <<>>
    /\ SymbolItem(row, PickSymbol(RowSymbols(row))) # 0
    /\ row[SymbolItem(row, PickSymbol(RowSymbols(row)))].text = PickSymbol(RowSymbols(row))

\* the row at ri yields a symbol and an item that holds it
HasSymbol(row) ==
    /\ RowSymbols(row) # <<>>
    /\ SymbolItem(row, PickSymbol(RowSymbols(row))) # 0

\* lines 208-216: continue
RowSkip ==
    /\ pc = "rows"
    /\ ri <= Len(rows)
    /\ ~HasSymbol(rows[ri])
    /\ ri' = ri + 1
    /\ UNCHANGED <<pc, client, cv_ok, image, usage_file, month, calls_left, items,
                   rows, anchors, results, src_rows, out, prev>>
    /\ UNCHANGED monitor_vars

\* lines 208-298: one record appended
RowEmit ==
    /\ pc = "rows"
    /\ ri <= Len(rows)
    /\ HasSymbol(rows[ri])
    /\ LET row    == rows[ri]
           symbol == PickSymbol(RowSymbols(row))
           sx     == row[SymbolItem(row, symbol)].x
       IN  results' = Append(results, MakeRecord(row, sx, symbol, anchors, cv_ok))
    /\ src_rows' = Append(src_rows, ri)
    /\ ri' = ri + 1
    /\ UNCHANGED <<pc, client, cv_ok, image, usage_file, month, calls_left, items,
                   rows, anchors, out, prev>>
    /\ UNCHANGED monitor_vars

\* line 301
Return ==
    /\ pc = "rows"
    /\ ri > Len(rows)
    /\ out' = results
    /\ pc' = "done"
    /\ UNCHANGED <<client, cv_ok, image, usage_file, month, calls_left, items,
                   rows, anchors, ri, results, src_rows, prev>>
    /\ UNCHANGED monitor_vars

\* the month of datetime.now() changes between two calls
MonthRolls ==
    /\ pc = "done"
    /\ month < MaxMonth
    /\ month' = month + 1
    /\ UNCHANGED <<pc, client, cv_ok, image, usage_file, calls_left, items, rows,
                   anchors, ri, results, src_rows, out, prev>>
    /\ UNCHANGED monitor_vars

Next ==
    \/ CallNoClient
    \/ CallRaises
    \/ CallError
    \/ CallOk
    \/ Cluster
    \/ Anchors
    \/ RowSkip
    \/ RowEmit
    \/ Return
    \/ MonthRolls

---------------------------------------------------------------------------
(* Images: the paragraphs the text detection returns for the image file *)

Para(text, x, y) == [text |-> text, x |-> x, y |-> y, r |-> 0, g |-> 0]

\* sequences over S of length lo..hi
SeqsOf(S, lo, hi) == UNION {[1..n -> S] : n \in lo..hi}

T2330 == <<"2", "3", "3", "0">>
T056303 == <<"0", "5", "6", "3", "0", "3">>
T12345 == <<"1", "2", "3", "4", "5">>
T1234567 == <<"1", "2", "3", "4", "5", "6", "7">>
T12330 == <<"1", "2", "3", "3", "0">>
TAb2330 == <<"A", "b", "2", "3", "3", "0">>
T2330p5 == <<"2", "3", "3", "0", ".", "5">>
TBoth == <<"0", "5", "6", "3", "0", "3", " ", "2", "3", "3", "0">>
T100 == <<"1", "0", "0">>
T1000 == <<"1", "0", "0", "0">>
TNeg100 == <<"-", "1", "0", "0">>
T550p5 == <<"5", "5", "0", ".", "5">>
TPlus1000 == <<"+", "1", "0", "0", "0">>
\* tai-ji-dian
TName == <<"U+53F0", "U+7A4D", "U+96FB">>
\* tai-ji-dian followed by the code without a space
TName2330 == TName \o T2330
\* gu-shu, a quantity header
THeadQty == <<"U+80A1", "U+6578">>
TBlank == <<" ">>

\* the monitor is not running
MonitorOff ==
    /\ stopped_symbols = {}
    /\ watch = <<>>
    /\ allow_outside = FALSE
    /\ chk = 0
    /\ success_count = 0
    /\ fail_count = 0
    /\ notion = <<>>
    /\ events = <<>>
    /\ checks_left = 0
    /\ cmds_left = 0
    /\ loop_pc = "off"
    /\ now_day = 0
    /\ now_slot = 0
    /\ last_open_date = <<>>
    /\ last_noon_date = <<>>
    /\ last_daily_report_date = <<>>
    /\ last_check_time = 0
    /\ sent = {}
    /\ attempts = {}

\* the state before the first call
Start(cl, cv, img, n) ==
    /\ pc = "idle"
    /\ client = cl
    /\ cv_ok = cv
    /\ image = img
    /\ usage_file = NoFile
    /\ month = 0
    /\ calls_left = n
    /\ items = <<>>
    /\ rows = <<>>
    /\ anchors = NoAnchors
    /\ ri = 0
    /\ results = <<>>
    /\ src_rows = <<>>
    /\ out = <<>>
    /\ prev = None
    /\ MonitorOff

\* without a client the image is never read: one image stands for all
NoClientImage == <<Para(T2330, 10, 0)>>

\* Spec: repeated calls on one image
CallParas == {Para(t, x, 0) : t \in {T2330, T100, TName, TBlank}, x \in {10, 60}}

Init ==
    \/ \E cv \in BOOLEAN, img \in SeqsOf(CallParas, 1, MaxParas) :
            Start(TRUE, cv, img, MaxCalls)
    \/ Start(FALSE, FALSE, NoClientImage, MaxCalls)

Spec == Init /\ [][Next]_vars

\* SpecSymbol: one call; texts with digit runs of every kind, in one or two rows
SymbolTexts ==
    {T2330, T056303, T12345, T1234567, T12330, TAb2330, T2330p5, TBoth, T100, TName,
     TName2330}

SymbolParas ==
    {Para(t, pos[1], pos[2]) : t \in SymbolTexts, pos \in {<<10, 0>>, <<60, 0>>, <<10, 100>>}}

InitSymbol ==
    \/ \E img \in SeqsOf(SymbolParas, 1, MaxParas) : Start(TRUE, TRUE, img, 1)
    \/ Start(FALSE, FALSE, NoClientImage, 1)

SpecSymbol == InitSymbol /\ [][Next]_vars

\* SpecCluster: one call; paragraphs at the heights ClusterYs, the k-th at x = 10 * k
ClusterYs == {0, 24, 36, 44}

ClusterImages ==
    {[k \in 1..Len(c) |-> Para(c[k][1], 10 * k, c[k][2])] :
        c \in SeqsOf({T2330, T100} \X ClusterYs, 1, MaxItems)}

InitCluster ==
    \/ \E img \in ClusterImages : Start(TRUE, TRUE, img, 1)
    \/ Start(FALSE, FALSE, NoClientImage, 1)

SpecCluster == InitCluster /\ [][Next]_vars

\* SpecRow: one call; a data row at y = 100 made of an optional name at x = 0,
\* the code at x = 10 and numeric paragraphs to its right (the first at 13, 17
\* or 30, the k-th at 10 + 20 * k), under an optional quantity header at y = 0
RowHeaders == {<<>>} \cup {<<Para(THeadQty, x, 0)>> : x \in {17, 30}}

RowNames == {<<>>, <<Para(TName, 0, 100)>>, <<Para(XianGu, 0, 100)>>}

RowFirstTexts == {T100, TNeg100, T550p5, T1000, TPlus1000, T2330}

RowRestTexts == {T550p5, T1000, TPlus1000, T2330}

RowNumTexts ==
    {c \in SeqsOf(RowFirstTexts \cup RowRestTexts, 0, MaxNums) :
        \A k \in 1..Len(c) : c[k] \in (IF k = 1 THEN RowFirstTexts ELSE RowRestTexts)}

RowNums ==
    {[k \in 1..Len(c) |-> Para(c[k], IF k = 1 THEN fx ELSE 10 + 20 * k, 100)] :
        c \in RowNumTexts, fx \in {13, 17, 30}}

InitRow ==
    \/ \E h \in RowHeaders, nm \in RowNames, nums \in RowNums :
            Start(TRUE, FALSE, h \o nm \o <<Para(T2330, 10, 100)>> \o nums, 1)
    \/ Start(FALSE, FALSE, NoClientImage, 1)

SpecRow == InitRow /\ [][Next]_vars

\* SpecColor: one call; the code at x = 10 and up to MaxColored numeric
\* paragraphs to its right (the k-th at 10 + 20 * k), each with the red and
\* green pixel counts of its region, under an optional profit header
THeadProfit == <<"U+640D", "U+76CA">>

ColorPara(text, x, y, c) == [text |-> text, x |-> x, y |-> y, r |-> c[1], g |-> c[2]]

\* <<red pixels, green pixels>>
Colors ==
    {<<0, 0>>, <<3, 3>>, <<5, 0>>, <<0, 5>>, <<6, 0>>, <<0, 6>>, <<6, 6>>, <<7, 6>>, <<6, 7>>}

PlainColors == {<<0, 0>>, <<6, 0>>, <<0, 6>>}

ColorTexts == {T100, TNeg100, T550p5}

ColorChoices ==
    {c \in SeqsOf(ColorTexts \X Colors, 1, MaxColored) :
        \A k \in 2..Len(c) : c[k][2] \in PlainColors}

ColorVals ==
    {[k \in 1..Len(c) |-> ColorPara(c[k][1], 10 + 20 * k, 100, c[k][2])] : c \in ColorChoices}

ColorHeaders == {<<>>} \cup {<<Para(THeadProfit, x, 0)>> : x \in {30, 50}}

InitColor ==
    \/ \E cv \in BOOLEAN, h \in ColorHeaders, vals \in ColorVals :
            Start(TRUE, cv, h \o <<Para(T2330, 10, 100)>> \o vals, 1)
    \/ Start(FALSE, FALSE, NoClientImage, 1)

SpecColor == InitColor /\ [][Next]_vars

\* SpecValues: one call; a code at x = 10 and up to MaxNums numeric paragraphs
\* to its right (the k-th at 10 + 20 * k), under at most one header
T0050 == <<"0", "0", "5", "0">>
T50p0 == <<"5", "0", ".", "0">>
T20000 == <<"2", "0", "0", "0", "0">>
\* jun-jia, a price header
THeadPrice == <<"U+5747", "U+50F9">>

ValueCodes == {T2330, T0050}

ValueTexts == {T100, TNeg100, T550p5, T1000, T20000, T50p0}

ValueNums ==
    {[k \in 1..Len(c) |-> Para(c[k], 10 + 20 * k, 100)] : c \in SeqsOf(ValueTexts, 0, MaxNums)}

ValueHeaders ==
    {<<>>, <<Para(THeadQty, 50, 0)>>, <<Para(THeadProfit, 30, 0)>>, <<Para(THeadPrice, 50, 0)>>}

InitValues ==
    \/ \E h \in ValueHeaders, code \in ValueCodes, nums \in ValueNums :
            Start(TRUE, FALSE, h \o <<Para(code, 10, 100)>> \o nums, 1)
    \/ Start(FALSE, FALSE, NoClientImage, 1)

SpecValues == InitValues /\ [][Next]_vars

\* SpecHeader: one call; a table of HeaderRows + 1 rows 100 apart, each with a
\* code at x = 10 except the second, which holds only a name, and up to MaxHeads
\* header paragraphs in the first, the last scanned and the first unscanned row
TableRows == HeaderRows + 1

TableCodes ==
    [i \in 1..TableRows |-> Para(IF i = 2 THEN TName ELSE T2330, 10, 100 * (i - 1))]

HeadParas ==
    {Para(t, x, 100 * (i - 1)) :
        t \in {THeadQty, THeadProfit}, x \in {30, 50}, i \in {1, HeaderRows, TableRows}}

InitHeader ==
    \/ \E heads \in SeqsOf(HeadParas, 0, MaxHeads) : Start(TRUE, FALSE, TableCodes \o heads, 1)
    \/ Start(FALSE, FALSE, NoClientImage, 1)

SpecHeader == InitHeader /\ [][Next]_vars

---------------------------------------------------------------------------
(* MarketMonitor.check_once, Notifier._stop_command, _start_command, is_stopped *)

\* the status names written to Notion: zheng-chang (normal), jing-jie (alert)
StatusNormal == <<"U+6B63", "U+5E38">>
StatusAlert == <<"U+8B66", "U+6212">>

TTaiex == <<"T", "A", "I", "E", "X">>

\* str.isalpha(): non-empty and every character a letter (ideographs are letters)
IsAlpha(s) == s # <<>> /\ \A k \in 1..Len(s) : s[k] \in Letters \cup Ideographs

\* line 105: is_us
IsUS(symbol) == IsAlpha(symbol) /\ ~Contains(symbol, <<".">>) /\ Upper(symbol) # TTaiex

\* lines 137 and 141: the conditions of the if and of the elif; a limit that is
\* None or 0 is falsy and is written 0
AboveHigh(item, price) == item.high_alert # 0 /\ price >= item.high_alert
BelowLow(item, price) == item.low_alert # 0 /\ price <= item.low_alert
IsTriggered(item, price) == AboveHigh(item, price) \/ BelowLow(item, price)

\* Notifier.is_stopped
IsStopped(symbol) == Upper(symbol) \in stopped_symbols

\* the alert message sent and the two lines printed, as events
AlertSent(symbol) == [kind |-> "alert", symbol |-> symbol]
AlertPaused(symbol) == [kind |-> "paused", symbol |-> symbol]
AlertReset(symbol) == [kind |-> "reset", symbol |-> symbol]

\* how many checks and commands one behaviour has
MaxChecks == 3
MaxCmds == 2

\* the prices get_last_price returns
Prices == {10, 15, 20}

\* the arguments of a command: none, or one symbol
CommandArgs == {<<>>, <<T2330>>, <<<<"a", "b">>>>}

\* /stop: with no argument only a usage reply
StopCommand ==
    /\ loop_pc = "off"
    /\ cmds_left > 0
    /\ cmds_left' = cmds_left - 1
    /\ \E args \in CommandArgs :
          stopped_symbols' = IF args = <<>> THEN stopped_symbols
                             ELSE stopped_symbols \cup {Upper(args[1])}
    /\ UNCHANGED <<watch, allow_outside, chk, success_count, fail_count, notion, events,
                   checks_left>>
    /\ UNCHANGED <<ocr_vars, loop_vars>>

\* /start: removes the symbol when it is in the set, otherwise only a reply
StartCommand ==
    /\ loop_pc = "off"
    /\ cmds_left > 0
    /\ cmds_left' = cmds_left - 1
    /\ \E args \in CommandArgs :
          stopped_symbols' = IF args = <<>> THEN stopped_symbols
                             ELSE IF Upper(args[1]) \in stopped_symbols
                                  THEN stopped_symbols \ {Upper(args[1])}
                                  ELSE stopped_symbols
    /\ UNCHANGED <<watch, allow_outside, chk, success_count, fail_count, notion, events,
                   checks_left>>
    /\ UNCHANGED <<ocr_vars, loop_vars>>

\* lines 94-100: the counters start at 0; an empty list returns (0, 0) at once
CheckBegin ==
    /\ success_count' = 0
    /\ fail_count' = 0
    /\ chk' = IF watch = <<>> THEN 0 ELSE 1

\* check_once called by a command handler, outside the loop
CheckStart ==
    /\ loop_pc = "off"
    /\ chk = 0
    /\ checks_left > 0
    /\ checks_left' = checks_left - 1
    /\ CheckBegin
    /\ UNCHANGED <<stopped_symbols, watch, allow_outside, notion, events, cmds_left>>
    /\ UNCHANGED <<ocr_vars, loop_vars>>

\* The clock of _get_now_taipei() is (now_day, now_slot).  A day is cut into
\* slots at the times the code compares with: 0 is 00:00-05:00, 1 is 05:00-09:00,
\* then the WindowSlots slots of the 09:00-09:15 window, 09:15-12:00, the slots
\* of the 12:00-12:15 window, 12:15-13:35, 13:35-15:00, the slots of the
\* 15:00-15:20 window, 15:20-22:30 and 22:30-24:00.
WindowSlots == 2
\* how many days the clock runs, and the weekday of day 0 (0 is Monday)
MaxDays == 2
StartWeekday == 3
\* self.interval, in slots
IntervalSlots == 2

OpenWindow == 2..(WindowSlots + 1)
NoonWindow == (WindowSlots + 3)..(2 * WindowSlots + 2)
DailyWindow == (2 * WindowSlots + 5)..(3 * WindowSlots + 4)
\* 09:00-13:35
MarketHours == 2..(2 * WindowSlots + 3)
\* 00:00-05:00 and 22:30-24:00
UsNight == {0}
UsLate == {3 * WindowSlots + 6}
SlotsPerDay == 3 * WindowSlots + 7

\* now.weekday()
Weekday(day) == (StartWeekday + day) % 7

\* is_market_open
IsMarketOpen(day, slot) ==
    IF Weekday(day) > 4 THEN FALSE
    ELSE IF allow_outside THEN TRUE
    ELSE slot \in MarketHours

\* is_us_market_open
IsUsMarketOpen(day, slot) ==
    IF Weekday(day) = 6 THEN FALSE
    ELSE IF Weekday(day) = 0 /\ slot \notin UsLate THEN FALSE
    ELSE IF Weekday(day) = 5 /\ slot \notin UsNight THEN FALSE
    ELSE IF allow_outside THEN TRUE
    ELSE IF Weekday(day) <= 4 /\ slot \in UsLate THEN TRUE
    ELSE IF Weekday(day) \in 1..5 /\ slot \in UsNight THEN TRUE
    ELSE FALSE

\* lines 108-115: whether the item is skipped.  Inside the loop the clock is the
\* loop's; for a call from a command handler the clock is left open.
ItemSkipped(symbol) ==
    /\ ~allow_outside
    /\ \/ loop_pc = "off"
       \/ IF IsUS(symbol) THEN ~IsUsMarketOpen(now_day, now_slot)
                          ELSE ~IsMarketOpen(now_day, now_slot)
ItemFetched(symbol) ==
    \/ allow_outside
    \/ loop_pc = "off"
    \/ IF IsUS(symbol) THEN IsUsMarketOpen(now_day, now_slot)
                       ELSE IsMarketOpen(now_day, now_slot)

\* lines 108-115: the item's market is closed and allow_outside is off
ItemClosed ==
    /\ chk \in 1..Len(watch)
    /\ ItemSkipped(watch[chk].symbol)
    /\ chk' = chk + 1
    /\ UNCHANGED <<stopped_symbols, watch, allow_outside, success_count, fail_count, notion,
                   events, checks_left, cmds_left>>
    /\ UNCHANGED <<ocr_vars, loop_vars>>

\* lines 117-121: get_last_price returns None
ItemNoPrice ==
    /\ chk \in 1..Len(watch)
    /\ ItemFetched(watch[chk].symbol)
    /\ fail_count' = fail_count + 1
    /\ chk' = chk + 1
    /\ UNCHANGED <<stopped_symbols, watch, allow_outside, success_count, notion, events,
                   checks_left, cmds_left>>
    /\ UNCHANGED <<ocr_vars, loop_vars>>

\* lines 147-157: the events and the stop set after an item with this price
EventsAfter(item, price) ==
    IF IsTriggered(item, price)
    THEN IF ~IsStopped(item.symbol)
         THEN Append(events, AlertSent(item.symbol))
         ELSE Append(events, AlertPaused(item.symbol))
    ELSE IF IsStopped(item.symbol)
         THEN Append(events, AlertReset(item.symbol))
         ELSE events

\* a check that never removes a symbol from the stop set
StoppedAfter_Keep(item, price) == stopped_symbols

StoppedAfter(item, price) ==
    IF ~IsTriggered(item, price) /\ IsStopped(item.symbol)
    THEN stopped_symbols \ {Upper(item.symbol)}
    ELSE stopped_symbols

\* lines 123-160: a price was fetched
ItemPriced ==
    /\ chk \in 1..Len(watch)
    /\ ItemFetched(watch[chk].symbol)
    /\ \E price \in Prices :
          /\ events' = EventsAfter(watch[chk], price)
          /\ stopped_symbols' = StoppedAfter(watch[chk], price)
          /\ notion' = [notion EXCEPT ![chk] =
                           [price |-> price,
                            status |-> IF IsTriggered(watch[chk], price)
                                       THEN StatusAlert ELSE StatusNormal]]
    /\ success_count' = success_count + 1
    /\ chk' = chk + 1
    /\ UNCHANGED <<watch, allow_outside, fail_count, checks_left, cmds_left>>
    /\ UNCHANGED <<ocr_vars, loop_vars>>

\* lines 162-163: check_once returns (success_count, fail_count) to a command handler
CheckEnd ==
    /\ loop_pc = "off"
    /\ chk = Len(watch) + 1
    /\ chk' = 0
    /\ UNCHANGED <<stopped_symbols, watch, allow_outside, success_count, fail_count, notion,
                   events, checks_left, cmds_left>>
    /\ UNCHANGED <<ocr_vars, loop_vars>>

NextAlerts ==
    \/ StopCommand
    \/ StartCommand
    \/ CheckStart
    \/ ItemClosed
    \/ ItemNoPrice
    \/ ItemPriced
    \/ CheckEnd

\* the OCR is not running
OcrOff ==
    /\ pc = "idle"
    /\ client = FALSE
    /\ cv_ok = FALSE
    /\ image = <<>>
    /\ usage_file = NoFile
    /\ month = 0
    /\ calls_left = 0
    /\ items = <<>>
    /\ rows = <<>>
    /\ anchors = NoAnchors
    /\ ri = 0
    /\ results = <<>>
    /\ src_rows = <<>>
    /\ out = <<>>
    /\ prev = None

\* the loop is not running
LoopOff ==
    /\ loop_pc = "off"
    /\ now_day = 0
    /\ now_slot = 0
    /\ last_open_date = None
    /\ last_noon_date = None
    /\ last_daily_report_date = None
    /\ last_check_time = 0
    /\ sent = {}
    /\ attempts = {}

\* the monitored items of the Notion database
MonItem(sym, hi, lo) == [symbol |-> sym, high_alert |-> hi, low_alert |-> lo]
NotChecked == [price |-> 0, status |-> StatusNormal]

WatchLists ==
    { <<>>,
      <<MonItem(T2330, 20, 0)>>,
      <<MonItem(<<"a", "b">>, 0, 10)>>,
      <<MonItem(T2330, 20, 10), MonItem(<<"a", "b">>, 15, 0)>> }

InitAlerts ==
    /\ OcrOff
    /\ LoopOff
    /\ stopped_symbols = {}
    /\ watch \in WatchLists
    /\ allow_outside \in BOOLEAN
    /\ chk = 0
    /\ success_count = 0
    /\ fail_count = 0
    /\ notion = [k \in 1..Len(watch) |-> NotChecked]
    /\ events = <<>>
    /\ checks_left = MaxChecks
    /\ cmds_left = MaxCmds

SpecAlerts == InitAlerts /\ [][NextAlerts]_vars

---------------------------------------------------------------------------
(* MarketMonitor.run_monitor_loop, send_noon_report, send_daily_report *)

\* a loop that forgets what it has reported
NotYet_Always(last, today) == TRUE

\* lines 524, 532, 538: the report of this kind was not yet handled today
NotYet(last, today) == last # Some(today)

\* line 518: is_weekday
IsWeekday(day) == Weekday(day) <= 4

\* time.time(), in slots; the epoch lies more than an interval before day 0
Unix(day, slot) == (day + 1) * SlotsPerDay + slot

\* lines 550 and 561: the interval has passed since the last check
Elapsed == Unix(now_day, now_slot) - last_check_time >= IntervalSlots

Report(kind) == <<kind, now_day, now_slot>>

\* lines 523-528: the opening reminder; get_detailed_summary and send_message
\* catch their own errors, so the date is always set
ReportOpen ==
    /\ loop_pc = "top"
    /\ IsWeekday(now_day) /\ now_slot \in OpenWindow
    /\ NotYet(last_open_date, now_day)
    /\ attempts' = attempts \cup {Report("open")}
    /\ sent' = sent \cup {Report("open")}
    /\ last_open_date' = Some(now_day)
    /\ loop_pc' = "check"
    /\ UNCHANGED <<now_day, now_slot, last_noon_date, last_daily_report_date, last_check_time>>
    /\ UNCHANGED <<ocr_vars, alert_vars>>

\* lines 531-534 and send_noon_report: the message is sent and True returned
\* when get_ticker_ma gave a price and an average, otherwise False
ReportNoon ==
    /\ loop_pc = "top"
    /\ IsWeekday(now_day) /\ now_slot \in NoonWindow
    /\ NotYet(last_noon_date, now_day)
    /\ attempts' = attempts \cup {Report("noon")}
    /\ \E has_data \in BOOLEAN :
          IF has_data
          THEN sent' = sent \cup {Report("noon")} /\ last_noon_date' = Some(now_day)
          ELSE UNCHANGED <<sent, last_noon_date>>
    /\ loop_pc' = "check"
    /\ UNCHANGED <<now_day, now_slot, last_open_date, last_daily_report_date, last_check_time>>
    /\ UNCHANGED <<ocr_vars, alert_vars>>

\* lines 537-542 and send_daily_report: False without sending when the data
\* are not of today, otherwise the picture or the text is sent; line 542 sets
\* the date in both cases
ReportDaily ==
    /\ loop_pc = "top"
    /\ IsWeekday(now_day) /\ now_slot \in DailyWindow
    /\ NotYet(last_daily_report_date, now_day)
    /\ attempts' = attempts \cup {Report("daily")}
    /\ \E data_today \in BOOLEAN :
          sent' = IF data_today THEN sent \cup {Report("daily")} ELSE sent
    /\ last_daily_report_date' = Some(now_day)
    /\ loop_pc' = "check"
    /\ UNCHANGED <<now_day, now_slot, last_open_date, last_noon_date, last_check_time>>
    /\ UNCHANGED <<ocr_vars, alert_vars>>

\* no report block is entered: weekend, outside the windows, or handled today
NoReport ==
    /\ loop_pc = "top"
    /\ ~(IsWeekday(now_day) /\ now_slot \in OpenWindow /\ NotYet(last_open_date, now_day))
    /\ ~(IsWeekday(now_day) /\ now_slot \in NoonWindow /\ NotYet(last_noon_date, now_day))
    /\ ~(IsWeekday(now_day) /\ now_slot \in DailyWindow
            /\ NotYet(last_daily_report_date, now_day))
    /\ loop_pc' = "check"
    /\ UNCHANGED <<now_day, now_slot, last_open_date, last_noon_date, last_daily_report_date,
                   last_check_time, sent, attempts>>
    /\ UNCHANGED <<ocr_vars, alert_vars>>

\* line 549
AnyMarketOpen == IsMarketOpen(now_day, now_slot) \/ IsUsMarketOpen(now_day, now_slot)

\* lines 549-556: a market is open and the interval has passed: check_once
\* starts; with an empty list it returns (0, 0) at once
LoopCheck ==
    /\ loop_pc = "check"
    /\ AnyMarketOpen /\ Elapsed
    /\ CheckBegin
    /\ IF watch = <<>>
       THEN last_check_time' = Unix(now_day, now_slot) /\ loop_pc' = "sleep"
       ELSE last_check_time' = last_check_time /\ loop_pc' = "checking"
    /\ UNCHANGED <<now_day, now_slot, last_open_date, last_noon_date, last_daily_report_date,
                   sent, attempts>>
    /\ UNCHANGED <<stopped_symbols, watch, allow_outside, notion, events, checks_left,
                   cmds_left>>
    /\ UNCHANGED ocr_vars

\* lines 556-559: check_once has returned; the "check completed" message goes
\* out when an item was fetched or failed
LoopCheckEnd ==
    /\ loop_pc = "checking"
    /\ chk = Len(watch) + 1
    /\ chk' = 0
    /\ last_check_time' = Unix(now_day, now_slot)
    /\ loop_pc' = "sleep"
    /\ UNCHANGED <<now_day, now_slot, last_open_date, last_noon_date, last_daily_report_date,
                   sent, attempts>>
    /\ UNCHANGED <<stopped_symbols, watch, allow_outside, success_count, fail_count, notion,
                   events, checks_left, cmds_left>>
    /\ UNCHANGED ocr_vars

\* lines 560-563: both markets are closed and the interval has passed
LoopSkipCheck ==
    /\ loop_pc = "check"
    /\ ~AnyMarketOpen /\ Elapsed
    /\ last_check_time' = Unix(now_day, now_slot)
    /\ loop_pc' = "sleep"
    /\ UNCHANGED <<now_day, now_slot, last_open_date, last_noon_date, last_daily_report_date,
                   sent, attempts>>
    /\ UNCHANGED <<ocr_vars, alert_vars>>

\* lines 550 and 561: the interval has not passed
LoopNoCheck ==
    /\ loop_pc = "check"
    /\ ~Elapsed
    /\ loop_pc' = "sleep"
    /\ UNCHANGED <<now_day, now_slot, last_open_date, last_noon_date, last_daily_report_date,
                   last_check_time, sent, attempts>>
    /\ UNCHANGED <<ocr_vars, alert_vars>>

\* line 569: asyncio.sleep(60); the next iteration reads the clock in the next
\* slot, or one slot further when the iteration or the sleep took long
LoopSleep ==
    /\ loop_pc = "sleep"
    /\ \E step \in 1..2 :
          LET t == now_slot + step IN
          /\ now_day' = IF t >= SlotsPerDay THEN now_day + 1 ELSE now_day
          /\ now_slot' = IF t >= SlotsPerDay THEN t - SlotsPerDay ELSE t
          /\ now_day' < MaxDays
    /\ loop_pc' = "top"
    /\ UNCHANGED <<last_open_date, last_noon_date, last_daily_report_date, last_check_time,
                   sent, attempts>>
    /\ UNCHANGED <<ocr_vars, alert_vars>>

NextReports ==
    \/ ReportOpen
    \/ ReportNoon
    \/ ReportDaily
    \/ NoReport
    \/ LoopCheck
    \/ ItemClosed
    \/ ItemNoPrice
    \/ ItemPriced
    \/ LoopCheckEnd
    \/ LoopSkipCheck
    \/ LoopNoCheck
    \/ LoopSleep

\* the lists the loop checks
LoopWatchLists == {<<>>, <<MonItem(T2330, 0, 0)>>}

\* the loop starts at the beginning of day 0 with nothing reported yet
InitReports ==
    /\ OcrOff
    /\ stopped_symbols = {}
    /\ watch \in LoopWatchLists
    /\ allow_outside \in BOOLEAN
    /\ chk = 0
    /\ success_count = 0
    /\ fail_count = 0
    /\ notion = [k \in 1..Len(watch) |-> NotChecked]
    /\ events = <<>>
    /\ checks_left = 0
    /\ cmds_left = 0
    /\ loop_pc = "top"
    /\ now_day = 0
    /\ now_slot = 0
    /\ last_open_date = None
    /\ last_noon_date = None
    /\ last_daily_report_date = None
    /\ last_check_time = 0
    /\ sent = {}
    /\ attempts = {}

SpecReports == InitReports /\ [][NextReports]_vars

---------------------------------------------------------------------------
(* Properties *)

\* the records built so far and the records returned
Records == {results[k] : k \in 1..Len(results)} \cup {out[k] : k \in 1..Len(out)}

\* a string of exactly 4 or exactly 6 decimal digits
IsCode(sym) == Len(sym) \in {4, 6} /\ \A k \in 1..Len(sym) : IsDigit(sym[k])

\* C1: the symbol of every record extract_stock_info builds or returns is a
\* string of exactly 4 or exactly 6 decimal digits
C1_SymbolGrammar == \A rec \in Records : IsCode(rec.symbol)

\* a 6-digit code is returned from an image that also shows a 5-digit number
C1_Witness ==
    /\ pc = "done"
    /\ \E k \in 1..Len(out) : out[k].symbol = T056303
    /\ \E j \in 1..Len(image) : image[j].text = T12345

\* the rows the loop of line 208 has gone through
RowsDone == IF pc = "rows" THEN 1..(ri - 1) ELSE 1..Len(rows)

\* C2: the loop appends exactly one record for each row in which the pattern
\* finds a code, in the order of the rows, and none for any other row; so no row
\* yields two records and there are at most as many records as rows
C2_OneRecordPerSymbolRow ==
    pc \in {"rows", "done"} =>
        /\ Len(results) = Cardinality({i \in RowsDone : RowSymbols(rows[i]) # <<>>})
        /\ Len(src_rows) = Len(results)
        /\ \A k \in 1..Len(src_rows) :
              src_rows[k] \in RowsDone /\ RowSymbols(rows[src_rows[k]]) # <<>>
        /\ \A k \in 1..Len(src_rows), l \in 1..Len(src_rows) :
              k < l => src_rows[k] < src_rows[l]
        /\ Len(results) <= Len(rows)
        /\ pc = "done" => out = results

\* of two rows one has a code and one has none: one record is returned
C2_Witness ==
    /\ pc = "done"
    /\ Len(rows) = 2
    /\ Len(out) = 1
    /\ \E i \in 1..2 : RowSymbols(rows[i]) = <<>>

\* two calls in a row on the same items return the same records
C3_SameOutput ==
    pc = "done" /\ prev # None /\ prev[1].items = items => out = prev[1].out

\* C3 as stated: a repeated call on the same items returns the same records, and
\* no step of a call changes state that outlives the call (the usage file)
C3_NoCrossCallState == [][C3_SameOutput' /\ usage_file' = usage_file]_vars

\* C3 as amended: a repeated call on the same items returns the same records;
\* the usage file does outlive the call: it changes only as a call receives a
\* detection response, and then to the count of the current month plus one
C3_SameOutputUsageCounted ==
    [][/\ C3_SameOutput'
       /\ usage_file' # usage_file =>
            /\ pc \in {"idle", "done"}
            /\ client
            /\ usage_file' =
                [month |-> month,
                 count |-> (IF usage_file.month = month THEN usage_file.count ELSE 0) + 1]
       /\ pc \in {"idle", "done"} /\ pc' = "cluster" => usage_file' # usage_file]_vars

\* a second call on the same items has returned the same record, and the usage
\* file counts both calls
C3_Witness ==
    /\ pc = "done"
    /\ prev # None
    /\ prev[1].items = items
    /\ out # <<>>
    /\ out = prev[1].out
    /\ usage_file.count = 2

\* the rows exist
Clustered == pc \in {"anchors", "rows", "done"}

\* C4: two items with the same y are in the same row
C4_SameYSameRow ==
    Clustered =>
        \A i \in 1..Len(rows), j \in 1..Len(rows) :
            \A a \in 1..Len(rows[i]), b \in 1..Len(rows[j]) :
                rows[i][a].y = rows[j][b].y => i = j

\* a row holds two items of one y and an item of another y, and is not the only row
C4_Witness ==
    /\ Clustered
    /\ Len(rows) >= 2
    /\ \E i \in 1..Len(rows) :
          \E a \in 1..Len(rows[i]), b \in 1..Len(rows[i]), c \in 1..Len(rows[i]) :
              a # b /\ rows[i][a].y = rows[i][b].y /\ rows[i][c].y # rows[i][a].y

\* C5: in a row of two or more items, every item is within the tolerance of
\* another item of the row
C5_NoStrayMember ==
    Clustered =>
        \A i \in 1..Len(rows) :
            Len(rows[i]) >= 2 =>
                \A a \in 1..Len(rows[i]) :
                    \E b \in 1..Len(rows[i]) :
                        b # a /\ Abs(rows[i][a].y - rows[i][b].y) <= RowTol

\* a row of three items at three heights whose lowest and highest items are
\* further apart than the tolerance
C5_Witness ==
    /\ Clustered
    /\ \E i \in 1..Len(rows) :
          /\ Len(rows[i]) = 3
          /\ \E a \in 1..3, b \in 1..3 : rows[i][a].y - rows[i][b].y > RowTol

\* C7: the records are in the order of the rows, top to bottom: of two records
\* the earlier comes from a row whose mean y (SumY / Len) is not the greater
C7_TopToBottom ==
    \A k \in 1..Len(src_rows), l \in 1..Len(src_rows) :
        k < l =>
            LET ra == rows[src_rows[k]]
                rb == rows[src_rows[l]]
            IN  /\ SumY(ra) * Len(rb) <= SumY(rb) * Len(ra)
                /\ Len(results) = Len(src_rows)
                /\ pc = "done" => out = results

\* two records are returned for an image whose first paragraph is the lower one
C7_Witness ==
    /\ pc = "done"
    /\ Len(out) = 2
    /\ Len(image) = 2
    /\ image[1].y > image[2].y + RowTol

\* the candidates of row i, a row with a code
RowCands(i) ==
    LET row    == rows[i]
        symbol == PickSymbol(RowSymbols(row))
    IN  ValCandidates(row, row[SymbolItem(row, symbol)].x, symbol)

\* C6: the quantity of every record is non-negative
C6_QuantityNonNegative == \A rec \in Records : rec.quantity >= 0

\* a record is returned whose quantity was taken, by the quantity anchor, from
\* a negative numeral
C6_Witness ==
    /\ pc = "done"
    /\ Len(out) = 1
    /\ anchors.quantity # None
    /\ RowCands(src_rows[1]) # <<>>
    /\ PickQuantity(RowCands(src_rows[1]), anchors) < 0
    /\ out[1].quantity > 0

\* C8: the record of a row in which the pattern finds a 6-digit code has a
\* 6-digit symbol, whatever else the row holds; the record of any other row has
\* the first 4-digit match as its symbol
C8_SixDigitPreferred ==
    \A k \in 1..Len(src_rows) :
        k <= Len(results) =>
            LET syms == RowSymbols(rows[src_rows[k]])
            IN  IF \E j \in 1..Len(syms) : Len(syms[j]) = 6
                THEN Len(results[k].symbol) = 6
                ELSE results[k].symbol = syms[1]

\* line 240, float(n): an integer numeral of at most this many digits is
\* represented exactly
FloatDigits == 15

\* line 240: float(n) is the integer the numeral denotes
ExactAsFloat(t) == Len(t) <= FloatDigits

\* digits only
IsUnsignedInt(t) == t # <<>> /\ \A k \in 1..Len(t) : IsDigit(t[k])

\* digits, with an optional leading '+'
IsPlusInt(t) == IsUnsignedInt(t) \/ (t # <<>> /\ t[1] = "+" /\ IsUnsignedInt(Tail(t)))

\* the digits of an integer written with an optional leading '+'
PlusDigits(t) == IF t[1] = "+" THEN Tail(t) ELSE t

\* digits '.' digits, the digits after the point not all zero
IsFraction(t) ==
    LET d == DigitRun(t, 1)
    IN  /\ d >= 1
        /\ d + 1 < Len(t)
        /\ t[d + 1] = "."
        /\ DigitRun(t, d + 2) = Len(t) - d - 1
        /\ \E k \in (d + 2)..Len(t) : t[k] # "0"

\* ideographs only
IsIdeographic(t) == t # <<>> /\ \A k \in 1..Len(t) : t[k] \in Ideographs

\* left to right at distinct x positions
LeftToRight(row) == \A k \in 1..(Len(row) - 1) : row[k].x < row[k + 1].x

\* the row of scenario A: a 4-digit symbol, an integer, a number with a
\* fractional part, an integer with an optional '+'
ScenarioA(row) ==
    /\ Len(row) = 4
    /\ IsCode(row[1].text) /\ Len(row[1].text) = 4
    /\ IsUnsignedInt(row[2].text)
    /\ IsFraction(row[3].text)
    /\ IsPlusInt(row[4].text)
    /\ LeftToRight(row)

\* the record scenario A expects of the row
ScenarioARecord(row) ==
    [symbol    |-> row[1].text,
     name      |-> UnknownName,
     quantity  |-> IntOf(row[2].text),
     avg_price |-> ParseFloat(row[3].text),
     profit    |-> IntOf(PlusDigits(row[4].text))]

\* the image is one row, no header keyword was found and there is no image matrix
OneRowNoAnchorsNoImage ==
    pc = "done" /\ Len(rows) = 1 /\ anchors = NoAnchors /\ ~cv_ok

\* C9 as stated: a one-row input S, Q, P, R at distinct x positions, without
\* anchors and image, returns exactly the record (S, unknown, Q, P, R)
C9_ScenarioA ==
    OneRowNoAnchorsNoImage /\ ScenarioA(rows[1]) => out = <<ScenarioARecord(rows[1])>>

\* what C9 leaves out: Q is at least 10 right of S, neither Q nor R repeats the
\* digits of S, Q and R are exact as floats, and P is further than 0.01 from Q
\* and from R
ScenarioASpaced(row) ==
    /\ ExactAsFloat(row[2].text)
    /\ ExactAsFloat(PlusDigits(row[4].text))
    /\ row[2].x >= row[1].x + NameTol
    /\ row[2].text # row[1].text
    /\ PlusDigits(row[4].text) # row[1].text
    /\ Abs(ParseFloat(row[3].text) - IntOf(row[2].text) * Scale) * 100 > Scale
    /\ Abs(ParseFloat(row[3].text) - IntOf(PlusDigits(row[4].text)) * Scale) * 100 > Scale

\* C9 as amended: the same, for a row in which moreover Q is at least 10
\* pixel-units right of S, neither Q nor R repeats the digits of S, Q and R have
\* at most 15 digits, and P differs by more than 0.01 from Q and from R
C9_ScenarioASpaced ==
    OneRowNoAnchorsNoImage /\ ScenarioA(rows[1]) /\ ScenarioASpaced(rows[1])
        => out = <<ScenarioARecord(rows[1])>>

\* scenario A itself: 2330, 100, 550.5, +1000
C9_Witness ==
    /\ OneRowNoAnchorsNoImage
    /\ RowTexts(rows[1]) = <<T2330, T100, T550p5, TPlus1000>>
    /\ out = <<[symbol |-> T2330, name |-> UnknownName, quantity |-> 100,
                avg_price |-> ParseFloat(T550p5), profit |-> 1000]>>

\* the row of scenario B: an ideographic name, a 4-digit symbol, two integers
ScenarioB(row) ==
    /\ Len(row) = 4
    /\ IsIdeographic(row[1].text)
    /\ IsCode(row[2].text) /\ Len(row[2].text) = 4
    /\ IsUnsignedInt(row[3].text)
    /\ IsUnsignedInt(row[4].text)
    /\ LeftToRight(row)

\* row i has a record whose name is the text of the row's first item and whose
\* quantity is the row's first integer
ScenarioBRecord(i) ==
    \E k \in 1..Len(out) :
        /\ src_rows[k] = i
        /\ out[k].name = rows[i][1].text
        /\ out[k].quantity = IntOf(rows[i][3].text)

\* C10 as stated: a row name, S, I1, I2 with the quantity anchor at the x of I1
\* yields a record with that name and quantity I1
C10_ScenarioB ==
    pc = "done" =>
        \A i \in 1..Len(rows) :
            ScenarioB(rows[i]) /\ anchors.quantity = Some(rows[i][3].x)
                => ScenarioBRecord(i)

\* what C10 leaves out: I1 is at least 10 right of S, does not repeat the
\* digits of S and is exact as a float, and the name holds none of the
\* transaction-type words
ScenarioBSpaced(row) ==
    /\ ExactAsFloat(row[3].text)
    /\ row[3].x >= row[2].x + NameTol
    /\ row[3].text # row[2].text
    /\ RemoveTrade(row[1].text) = row[1].text

\* C10 as amended: the same, for a row in which moreover I1 is at least 10
\* pixel-units right of S, does not repeat the digits of S and has at most 15
\* digits, and the name holds none of the transaction-type words of line 225
C10_ScenarioBSpaced ==
    pc = "done" =>
        \A i \in 1..Len(rows) :
            /\ ScenarioB(rows[i])
            /\ anchors.quantity = Some(rows[i][3].x)
            /\ ScenarioBSpaced(rows[i])
            => ScenarioBRecord(i)

\* scenario B itself: tai-ji-dian, 2330, 100, 1000 under a quantity header at the
\* x of 100
C10_Witness ==
    /\ pc = "done"
    /\ Len(rows) = 2
    /\ RowTexts(rows[2]) = <<TName, T2330, T100, T1000>>
    /\ anchors.quantity = Some(rows[2][3].x)
    /\ Len(out) = 1
    /\ out[1].name = TName
    /\ out[1].quantity = 100

\* C11: a call whose text detection gave no item (no client, a failure, an
\* error response, or only blank paragraphs) has returned the empty sequence
C11_EmptyTokensEmptyOutput == pc = "done" /\ items = <<>> => out = <<>>

\* after a call that returned a record, a second call on the same image failed
\* before its response was counted and returned the empty sequence
C11_Witness ==
    /\ pc = "done"
    /\ client
    /\ items = <<>>
    /\ out = <<>>
    /\ prev # None
    /\ prev[1].out # <<>>
    /\ usage_file.count = 1

\* the candidate lines 265-279 take the profit from: the nearest to the profit
\* anchor, else the last with an integer value (0: none)
ProfitChoice(cands, a) ==
    IF cands = <<>> THEN 0
    ELSE IF a.profit # None THEN Nearest(cands, a.profit[1])
    ELSE LastIntegral(cands)

\* C12: with an image, the colour sign of a region with r red and g green
\* pixels is +1 iff r > g and r > 5, -1 iff g > r and g > 5, and 0 otherwise;
\* in particular it is 0 when r = g
C12_ColorSignTable ==
    \A k \in 1..Len(items) :
        LET r == items[k].r
            g == items[k].g
            s == ColorSign(TRUE, r, g)
        IN  /\ s \in {-1, 0, 1}
            /\ s = 1 <=> (r > g /\ r > 5)
            /\ s = -1 <=> (g > r /\ g > 5)
            /\ r = g => s = 0

\* with an image and a profit anchor, a record took its profit from a numeral
\* with 3 red and 3 green pixels and kept the numeral's minus sign
C12_Witness ==
    /\ pc = "done"
    /\ cv_ok
    /\ anchors.profit # None
    /\ Len(out) = 1
    /\ LET cands == RowCands(src_rows[1])
           k     == ProfitChoice(cands, anchors)
       IN  /\ k # 0
           /\ cands[k].r = 3 /\ cands[k].g = 3
           /\ cands[k].val < 0
           /\ out[1].profit = TruncInt(cands[k].val)

\* C13: without an image the colour sign of every item is 0 and the profit of
\* every record is the value of the chosen numeral with the sign of its text
\* (0 if no numeral was chosen), on the anchor path and on the fallback path
C13_NoImageParsedSign ==
    ~cv_ok =>
        /\ \A k \in 1..Len(items) : ColorSign(cv_ok, items[k].r, items[k].g) = 0
        /\ \A k \in 1..Len(results) :
            LET cands == RowCands(src_rows[k])
                c     == ProfitChoice(cands, anchors)
            IN  results[k].profit = IF c = 0 THEN 0 ELSE TruncInt(cands[c].val)

\* without an image, a record took a negative profit from a numeral whose
\* region is red
C13_Witness ==
    /\ pc = "done"
    /\ ~cv_ok
    /\ Len(out) = 1
    /\ LET cands == RowCands(src_rows[1])
           k     == ProfitChoice(cands, anchors)
       IN  /\ k # 0
           /\ cands[k].r > MinPixels /\ cands[k].g = 0
           /\ out[1].profit < 0

\* C17: the profit of every record is the value v of the chosen numeral with
\* the colour sign applied, on the anchor path and on the fallback path: -|v|
\* for sign -1, +|v| for sign +1, v for sign 0
C17_ColorSignBothPaths ==
    \A k \in 1..Len(results) :
        LET cands == RowCands(src_rows[k])
            c     == ProfitChoice(cands, anchors)
        IN  c # 0 =>
              LET v == TruncInt(cands[c].val)
                  s == ColorSign(cv_ok, cands[c].r, cands[c].g)
              IN  results[k].profit =
                    IF s = -1 THEN -Abs(v) ELSE IF s = 1 THEN Abs(v) ELSE v

\* C14: a row with a symbol of which no numeral survives the filtering for
\* position (line 236) and for the code's own digits (line 242) has a record all
\* the same, and its quantity, avg_price and profit are 0
C14_NoCandidateZeroRecord ==
    pc = "done" =>
        \A i \in 1..Len(rows) :
            RowSymbols(rows[i]) # <<>> /\ RowCands(i) = <<>> =>
                \E k \in 1..Len(out) :
                    /\ src_rows[k] = i
                    /\ out[k].quantity = 0
                    /\ out[k].avg_price = 0
                    /\ out[k].profit = 0

\* a row that holds numerals next to its code, none of them a candidate, has
\* its record of zeros
C14_Witness ==
    /\ pc = "done"
    /\ Len(out) = 1
    /\ LET row == rows[src_rows[1]]
       IN  /\ \E k \in 1..Len(row) : row[k].text # out[1].symbol /\ FindNums(row[k].text) # <<>>
           /\ RowCands(src_rows[1]) = <<>>
    /\ out[1].quantity = 0 /\ out[1].avg_price = 0 /\ out[1].profit = 0

\* the values assigned to quantity before abs() in the row of record k
RowQuantity(k) == PickQuantity(RowCands(src_rows[k]), anchors)

\* a positive integer value
IsPositiveInt(v) == IsIntegral(v) /\ v > 0

\* C15: with a quantity anchor the quantity is that of a candidate closest in x
\* to the anchor; without one it is the value of the first candidate, left to
\* right, that is a positive integer
C15_QuantityAssignment ==
    \A k \in 1..Len(results) :
        LET cands == RowCands(src_rows[k])
        IN  cands # <<>> =>
              IF anchors.quantity # None
              THEN \E j \in 1..Len(cands) :
                      /\ \A i \in 1..Len(cands) :
                            Abs(cands[j].x - anchors.quantity[1])
                                <= Abs(cands[i].x - anchors.quantity[1])
                      /\ results[k].quantity = Abs(TruncInt(cands[j].val))
              ELSE \A j \in 1..Len(cands) :
                      /\ IsPositiveInt(cands[j].val)
                      /\ \A i \in 1..(j - 1) : ~IsPositiveInt(cands[i].val)
                      => results[k].quantity = TruncInt(cands[j].val)

\* C16: with a profit anchor the magnitude of the profit is that of a candidate
\* closest in x to the anchor; without one it is that of the right-most
\* candidate with an integer value, and the profit is 0 if there is none
C16_ProfitSelection ==
    \A k \in 1..Len(results) :
        LET cands == RowCands(src_rows[k])
        IN  cands # <<>> =>
              IF anchors.profit # None
              THEN \E j \in 1..Len(cands) :
                      /\ \A i \in 1..Len(cands) :
                            Abs(cands[j].x - anchors.profit[1])
                                <= Abs(cands[i].x - anchors.profit[1])
                      /\ Abs(results[k].profit) = Abs(TruncInt(cands[j].val))
              ELSE IF \E j \in 1..Len(cands) : IsIntegral(cands[j].val)
                   THEN \E j \in 1..Len(cands) :
                          /\ IsIntegral(cands[j].val)
                          /\ \A i \in (j + 1)..Len(cands) : ~IsIntegral(cands[i].val)
                          /\ Abs(results[k].profit) = Abs(TruncInt(cands[j].val))
                   ELSE results[k].profit = 0

\* without a profit anchor, a record took its profit from the right-most
\* integer of its row, which is neither the first nor the last candidate
C16_Witness ==
    /\ pc = "done"
    /\ anchors.profit = None
    /\ Len(out) = 1
    /\ LET cands == RowCands(src_rows[1])
       IN  /\ Len(cands) = 3
           /\ IsIntegral(cands[1].val)
           /\ IsIntegral(cands[2].val)
           /\ ~IsIntegral(cands[3].val)
           /\ cands[1].val # cands[2].val
           /\ out[1].profit = TruncInt(cands[2].val)

\* C18: without a price anchor the avg_price of a record is 0 or the value of
\* a candidate strictly between 0 and 10000 that differs from the quantity and
\* the profit assigned before it
C18_PriceFallbackRange ==
    anchors.price = None =>
        \A k \in 1..Len(results) :
            \/ results[k].avg_price = 0
            \/ \E j \in 1..Len(RowCands(src_rows[k])) :
                LET v == RowCands(src_rows[k])[j].val
                IN  /\ results[k].avg_price = v
                    /\ 0 < v /\ v < 10000 * Scale
                    /\ v # RowQuantity(k) * Scale
                    /\ v # results[k].profit * Scale

\* C19: without a price anchor, when the candidates that differ from quantity
\* and profit include one with an integer value and one with a fractional
\* part, the avg_price of the record has a fractional part
C19_PriceFallbackPrefersFraction ==
    anchors.price = None =>
        \A k \in 1..Len(results) :
            LET cands    == RowCands(src_rows[k])
                eligible == {j \in 1..Len(cands) :
                                PriceEligible(cands[j], RowQuantity(k), results[k].profit)}
            IN  /\ \E j \in eligible : IsIntegral(cands[j].val)
                /\ \E j \in eligible : ~IsIntegral(cands[j].val)
                => \E j \in eligible :
                      /\ ~IsIntegral(cands[j].val)
                      /\ results[k].avg_price = cands[j].val

\* lines 235-237: the numerals of the items of the row right of the symbol,
\* from item k on
RECURSIVE NumeralsFrom(_, _, _)
NumeralsFrom(row, k, sx) ==
    IF k > Len(row) THEN <<>>
    ELSE (IF RightOfSymbol(row[k], sx)
          THEN FindNums(RemoveAll(row[k].text, <<",">>))
          ELSE <<>>) \o NumeralsFrom(row, k + 1, sx)

\* the numerals right of the symbol of row i, a row with a code
RowNumerals(i) ==
    LET row    == rows[i]
        symbol == PickSymbol(RowSymbols(row))
    IN  NumeralsFrom(row, 1, row[SymbolItem(row, symbol)].x)

\* s without the members equal to x
RECURSIVE Without(_, _)
Without(s, x) ==
    IF s = <<>> THEN <<>>
    ELSE (IF Head(s) = x THEN <<>> ELSE <<Head(s)>>) \o Without(Tail(s), x)

\* C20: a numeral right of the symbol is discarded if and only if it is the
\* digit string of the symbol: the candidates of a row are the values of its
\* other numerals, one for one (so "50.0" is a candidate under symbol "0050")
C20_DiscardOnlySameDigits ==
    \A k \in 1..Len(results) :
        LET kept  == Without(RowNumerals(src_rows[k]), results[k].symbol)
            cands == RowCands(src_rows[k])
        IN  /\ Len(cands) = Len(kept)
            /\ \A j \in 1..Len(kept) : cands[j].val = ParseFloat(kept[j])

\* the item of row i in which the code was found (line 215), a row with a code
RowSymbolItem(i) ==
    LET row == rows[i]
    IN  row[SymbolItem(row, PickSymbol(RowSymbols(row)))]

\* the numerals of the text that begin after the first occurrence of the code,
\* none if a numeral runs on from the code itself (as in "2330.5")
TrailingNumerals(text, symbol) ==
    LET t     == RemoveAll(text, <<",">>)
        at    == CHOOSE i \in 1..Len(t) :
                    StartsAt(t, i, symbol) /\ \A j \in 1..(i - 1) : ~StartsAt(t, j, symbol)
        after == FindNums(SubSeq(t, at + Len(symbol), Len(t)))
    IN  IF Contains(t, symbol) /\ Without(FindNums(t), symbol) = after THEN after ELSE <<>>

\* C21: the numerals that the anchor token's own text holds after the code
\* are candidates of the row, and no candidate comes from a token left of the
\* anchor token
C21_SameBlockCandidates ==
    \A k \in 1..Len(results) :
        LET s     == RowSymbolItem(src_rows[k])
            own   == TrailingNumerals(s.text, results[k].symbol)
            cands == RowCands(src_rows[k])
        IN  /\ \A j \in 1..Len(own) :
                  \E c \in 1..Len(cands) :
                      cands[c].x = s.x /\ cands[c].val = ParseFloat(own[j])
            /\ \A c \in 1..Len(cands) : cands[c].x >= s.x

\* the text holds the code as a whole match of the pattern of line 206
MatchedIn(text, symbol) ==
    \E j \in 1..Len(FindSymbols(Upper(text))) : FindSymbols(Upper(text))[j] = symbol

\* C22: the anchor token of a row is a token in which the code is a whole
\* match of the pattern, never one that holds its digits inside a longer run
C22_AnchorTokenHoldsMatch ==
    \A k \in 1..Len(results) :
        MatchedIn(RowSymbolItem(src_rows[k]).text, results[k].symbol)

\* the text holds an ideograph
HasIdeograph(text) == \E j \in 1..Len(text) : text[j] \in Ideographs

\* C23: the name of a record is the placeholder or is made of fragments that
\* hold an ideograph each, so a name holds an ideograph
C23_NameIdeographic ==
    \A k \in 1..Len(results) : HasIdeograph(results[k].name)

\* the positions <<row, item>> of the items among the first 8 rows whose text
\* holds one of the keys
HeaderHits(keys) ==
    {p \in (1..8) \X (1..Len(items)) :
        /\ p[1] <= Len(rows)
        /\ p[2] <= Len(rows[p[1]])
        /\ ContainsAny(rows[p[1]][p[2]].text, keys)}

\* the x of the last of these items, rows top to bottom and items left to
\* right; absent if there is none
LastHeader(keys) ==
    LET hits == HeaderHits(keys)
    IN  IF hits = {} THEN None
        ELSE LET l == CHOOSE p \in hits :
                        \A q \in hits : q[1] < p[1] \/ (q[1] = p[1] /\ q[2] <= p[2])
             IN  Some(rows[l[1]][l[2]].x)

\* C24: once the headers are scanned, the anchor of each field is the x of the
\* last item among the first 8 rows that holds a keyword of the field, and is
\* absent if there is none; later rows do not count
C24_AnchorsLastHeader ==
    pc \in {"rows", "done"} =>
        /\ anchors.symbol = LastHeader(SymbolKeys)
        /\ anchors.quantity = LastHeader(QuantityKeys)
        /\ anchors.profit = LastHeader(ProfitKeys)
        /\ anchors.price = LastHeader(PriceKeys)

\* the quantity anchor is that of a header among the first 8 rows although the
\* ninth row holds a quantity header at another x
C24_Witness ==
    /\ pc = "done"
    /\ Len(rows) > 8
    /\ anchors.quantity # None
    /\ \E j \in 1..Len(rows[9]) :
          /\ ContainsAny(rows[9][j].text, QuantityKeys)
          /\ rows[9][j].x # anchors.quantity[1]

\* C25 as stated: a call on a token list that is not empty returns at least one
\* record
C25_EmptyOnlyIfNoTokens == pc = "done" /\ items # <<>> => out # <<>>

\* C25 as amended: the output of a call is empty exactly when no row holds a
\* 4- or 6-digit code, which is so for the empty token list and for every list
\* of tokens without a code
C25_EmptyIffNoCode ==
    pc = "done" => (out = <<>> <=> \A i \in 1..Len(rows) : RowSymbols(rows[i]) = <<>>)

\* a call on tokens without a code has returned no record
C25_Witness ==
    /\ pc = "done"
    /\ items # <<>>
    /\ rows # <<>>
    /\ out = <<>>

\* the items of the rows, row after row
RECURSIVE Flatten(_)
Flatten(rws) == IF rws = <<>> THEN <<>> ELSE Head(rws) \o Flatten(Tail(rws))

\* how often v occurs in s
CountOf(s, v) == Cardinality({k \in 1..Len(s) : s[k] = v})

\* C26: the rows partition the items: no row is empty, every item occurs in
\* the rows as often as among the items, and each row is in order of
\* non-decreasing x
C26_RowsPartitionItems ==
    Clustered /\ items # <<>> =>
        /\ \A i \in 1..Len(rows) : rows[i] # <<>>
        /\ Len(Flatten(rows)) = Len(items)
        /\ \A k \in 1..Len(items) :
              CountOf(Flatten(rows), items[k]) = CountOf(items, items[k])
        /\ \A i \in 1..Len(rows) :
              \A j \in 1..(Len(rows[i]) - 1) : rows[i][j].x <= rows[i][j + 1].x

\* a row of several items whose order by x is not their order by y, next to a
\* row of one item
C26_Witness ==
    /\ Clustered
    /\ \E i \in 1..Len(rows) :
          \E j \in 1..(Len(rows[i]) - 1) : rows[i][j].y > rows[i][j + 1].y
    /\ \E i \in 1..Len(rows) : Len(rows[i]) = 1

\* C27 as stated: every member of a row is less than 25 from the mean y of
\* the row
C27_WithinFinalMean ==
    Clustered =>
        \A i \in 1..Len(rows) :
            \A j \in 1..Len(rows[i]) :
                Abs(rows[i][j].y * Len(rows[i]) - SumY(rows[i])) < 25 * Len(rows[i])

\* C27 as amended: every member of a row but the topmost is less than 25 from
\* the mean y of the members above it, the mean it was compared with as it
\* joined
C27_WithinRunningMean ==
    Clustered =>
        \A i \in 1..Len(rows) :
            LET s == SortByY(rows[i])
            IN  \A k \in 2..Len(s) :
                    Abs(s[k].y * (k - 1) - SumY(SubSeq(s, 1, k - 1))) < 25 * (k - 1)

\* a row has drifted: one of its members is 25 or more from the row's mean
C27_Witness ==
    /\ Clustered
    /\ \E i \in 1..Len(rows) :
          \E j \in 1..Len(rows[i]) :
              Abs(rows[i][j].y * Len(rows[i]) - SumY(rows[i])) >= 25 * Len(rows[i])

\* the candidate lines 257-262 take the quantity from
QuantityChoice(cands, a) ==
    IF cands = <<>> THEN 0
    ELSE IF a.quantity # None THEN Nearest(cands, a.quantity[1])
    ELSE 1

\* the candidate lines 282-290 take the price from, given the quantity and
\* the profit assigned before (0: none)
PriceChoice(cands, a, quantity, profit) ==
    IF cands = <<>> THEN 0
    ELSE IF a.price # None THEN Nearest(cands, a.price[1])
    ELSE IF \E j \in 1..Len(cands) : PriceEligible(cands[j], quantity, profit)
         THEN CHOOSE j \in 1..Len(cands) :
                /\ PriceEligible(cands[j], quantity, profit)
                /\ \A i \in 1..(j - 1) : ~PriceEligible(cands[i], quantity, profit)
         ELSE 0

\* C28 as stated: in the row of a record no candidate is the source of two of
\* the fields quantity, profit and avg_price
C28_OneFieldPerCandidate ==
    \A k \in 1..Len(results) :
        LET cands == RowCands(src_rows[k])
            q     == QuantityChoice(cands, anchors)
            p     == ProfitChoice(cands, anchors)
            a     == PriceChoice(cands, anchors, RowQuantity(k), results[k].profit)
        IN  cands # <<>> =>
              /\ p # 0 => p # q
              /\ a # 0 => (a # q /\ a # p)

\* C28 as amended: without a price anchor the avg_price of a record is 0 or
\* differs by more than 0.01 from the quantity and from the profit assigned
\* before it; nothing keeps quantity and profit from sharing a candidate
C28_PriceAvoidsClaimedValues ==
    anchors.price = None =>
        \A k \in 1..Len(results) :
            \/ results[k].avg_price = 0
            \/ /\ RowCands(src_rows[k]) # <<>>
               /\ Abs(results[k].avg_price - RowQuantity(k) * Scale) * 100 > Scale
               /\ Abs(results[k].avg_price - results[k].profit * Scale) * 100 > Scale

\* without anchors, quantity and profit were both taken from the first
\* candidate and the price from the second
C28_Witness ==
    /\ pc = "done"
    /\ anchors = NoAnchors
    /\ Len(out) = 1
    /\ LET cands == RowCands(src_rows[1])
       IN  /\ Len(cands) = 2
           /\ QuantityChoice(cands, anchors) = 1
           /\ ProfitChoice(cands, anchors) = 1
           /\ out[1].profit = TruncInt(cands[1].val)
           /\ out[1].avg_price = cands[2].val
           /\ out[1].avg_price # 0

\* a step of check_once that fetched a price for the item it is at
PricedCheck == chk \in 1..Len(watch) /\ success_count' = success_count + 1

\* the price is at or beyond a limit that is set
Beyond(item, price) ==
    \/ (item.high_alert # 0 /\ price >= item.high_alert)
    \/ (item.low_alert # 0 /\ price <= item.low_alert)

\* C29: in every check of check_once that observes a price, over any sequence of
\* /stop, /start commands and checks: when the price is at or beyond a limit and
\* the symbol is in the stopped set, no alert is sent (only the pause is noted)
\* and the set is unchanged; when it is at or beyond a limit and the symbol is
\* not in the set, an alert is sent; when it is inside the limits, the symbol is
\* not in the stopped set afterwards and no alert is sent, so that the next
\* check finding the price at or beyond a limit alerts again.
C29_SuppressAndRearm ==
    [][PricedCheck =>
        LET item == watch[chk]
            price == notion'[chk].price
            stopped == Upper(item.symbol) \in stopped_symbols
        IN  /\ (Beyond(item, price) /\ stopped) =>
                    /\ events' = Append(events, AlertPaused(item.symbol))
                    /\ stopped_symbols' = stopped_symbols
            /\ (Beyond(item, price) /\ ~stopped) =>
                    /\ events' = Append(events, AlertSent(item.symbol))
                    /\ stopped_symbols' = stopped_symbols
            /\ ~Beyond(item, price) =>
                    /\ Upper(item.symbol) \notin stopped_symbols'
                    /\ stopped_symbols' \subseteq stopped_symbols
                    /\ events' = IF stopped THEN Append(events, AlertReset(item.symbol))
                                 ELSE events]_vars

\* a stopped symbol's alert was suppressed, a later check saw the price inside
\* the limits and re-armed it, and the next check beyond the limit alerted
C29_Witness ==
    /\ Len(events) = 3
    /\ events[1] = AlertPaused(T2330)
    /\ events[2] = AlertReset(T2330)
    /\ events[3] = AlertSent(T2330)
    /\ stopped_symbols = {}

\* the reports of one kind and day in a history set
OfDay(history, kind, day) == {e \in history : e[1] = kind /\ e[2] = day}

ReportKinds == {"open", "noon", "daily"}

\* C30: in run_monitor_loop each scheduled report is sent at most once per
\* calendar day; the opening reminder and the daily report are attempted in at
\* most one loop iteration per day, and a day on which the daily report was
\* attempted is marked handled whether or not the report was sent; the noon
\* report is attempted again in its window only until one attempt has sent it.
C30_ReportsOncePerDay ==
    \A day \in 0..(MaxDays - 1) :
        /\ \A kind \in ReportKinds : Cardinality(OfDay(sent, kind, day)) <= 1
        /\ Cardinality(OfDay(attempts, "open", day)) <= 1
        /\ Cardinality(OfDay(attempts, "daily", day)) <= 1
        /\ (day = now_day /\ OfDay(attempts, "daily", day) # {}) =>
                last_daily_report_date = Some(day)
        /\ \A s \in OfDay(sent, "noon", day), a \in OfDay(attempts, "noon", day) : a[3] <= s[3]
        /\ sent \subseteq attempts

\* on one day the opening reminder went out, the noon report failed in the
\* first slot of its window and was sent in a later one, the daily report was
\* attempted without being sent, and a later iteration inside the daily window
\* has passed the report blocks without a second attempt
C30_Witness ==
    /\ OfDay(sent, "open", now_day) # {}
    /\ \E s \in OfDay(sent, "noon", now_day), a \in OfDay(attempts, "noon", now_day) :
            a[3] < s[3]
    /\ \E a \in OfDay(attempts, "daily", now_day) : a \notin sent /\ a[3] < now_slot
    /\ now_slot \in DailyWindow
    /\ loop_pc = "check"

====
